---- MODULE Spec2Model ----
(***************************************************************************)
(* Model of the llamalint rule engine: glob pattern matching               *)
(* (Rule._glob_to_regex, FileUtils._glob_to_regex), file selection         *)
(* (FileUtils.find_files, FileUtils.is_ignored), the lint orchestration    *)
(* (LlamaLint.lint_file, LlamaLint.lint_directory) and fix application     *)
(* (LlamaLint._apply_fixes).                                               *)
(*                                                                         *)
(* Text is a sequence of one-character strings.  The only multi-character  *)
(* token is the marker "__DOUBLE_STAR__" that _glob_to_regex substitutes   *)
(* for "**"; no pattern of the model contains "_" next to the letters of   *)
(* the marker, so treating it as one token loses nothing.                  *)
(***************************************************************************)
EXTENDS Integers, Sequences, FiniteSets, TLC

(***************************************************************************)
(* Bounds                                                                  *)
(***************************************************************************)
MaxPatLen == 3
MaxPathLen == 3
MaxCalls == 1
MaxContentLen == 3
MaxFixes == 2
MaxLines == 3

(***************************************************************************)
(* Text helpers                                                            *)
(***************************************************************************)
\* Body applied to value, the value being computed once.
Bind(value, Body(_)) == CHOOSE r \in {Body(x) : x \in {value}} : TRUE

RECURSIVE SeqsUpTo(_, _)
SeqsUpTo(S, n) ==
    IF n = 0 THEN {<<>>}
    ELSE LET shorter == SeqsUpTo(S, n - 1)
         IN shorter \cup {Append(s, c) : s \in shorter, c \in S}

\* str.replace(old, new): non-overlapping occurrences, left to right.
RECURSIVE StrReplace(_, _, _)
StrReplace(s, old, new) ==
    IF Len(s) < Len(old) THEN s
    ELSE IF SubSeq(s, 1, Len(old)) = old
         THEN new \o StrReplace(SubSeq(s, Len(old) + 1, Len(s)), old, new)
         ELSE <<s[1]>> \o StrReplace(Tail(s), old, new)

(***************************************************************************)
(* Glob patterns compiled to regular expressions                           *)
(***************************************************************************)
DoubleStarMarker == <<"__DOUBLE_STAR__">>

\* Rule._glob_to_regex: the source text of the compiled regex.
RuleGlobToRegex(pattern) ==
    LET p1 == StrReplace(pattern, <<"*", "*">>, DoubleStarMarker)
        p2 == StrReplace(p1, <<"*">>, <<"[", "^", "/", "]", "*">>)
        p3 == StrReplace(p2, DoubleStarMarker, <<".", "*">>)
        p4 == StrReplace(p3, <<"?">>, <<"[", "^", "/", "]">>)
        p5 == StrReplace(p4, <<".">>, <<"\\", ".">>)
    IN <<"^">> \o p5 \o <<"$">>

\* FileUtils._glob_to_regex: the same translation, written a second time.
FileUtilsGlobToRegex(pattern) ==
    LET p1 == StrReplace(pattern, <<"*", "*">>, DoubleStarMarker)
        p2 == StrReplace(p1, <<"*">>, <<"[", "^", "/", "]", "*">>)
        p3 == StrReplace(p2, DoubleStarMarker, <<".", "*">>)
        p4 == StrReplace(p3, <<"?">>, <<"[", "^", "/", "]">>)
        p5 == StrReplace(p4, <<".">>, <<"\\", ".">>)
    IN <<"^">> \o p5 \o <<"$">>

\* re.compile raises re.error("nothing to repeat") when a quantifier opens
\* the expression.
RegexCompiles(re) == ~(Len(re) >= 2 /\ re[1] = "^" /\ re[2] = "+")

\* Length of the regex atom that starts at position i: an escape "\c", the
\* class "[^/]" or one literal character.
AtomLen(re, i) ==
    IF re[i] = "\\" THEN 2
    ELSE IF re[i] = "[" THEN 4
    ELSE 1

AtomMatches(re, i, c) ==
    IF re[i] = "\\" THEN c = re[i + 1]
    ELSE IF re[i] = "[" THEN c # "/"
    ELSE IF re[i] = "." THEN c # "\n"
    ELSE c = re[i]

\* Does re[i..] match s[j..]?  "^" and "$" are anchors, "*" and "+" are the
\* quantifiers "zero or more" and "one or more" of the preceding atom.
RECURSIVE RegexMatchFrom(_, _, _, _)
RegexMatchFrom(re, i, s, j) ==
    IF i > Len(re) THEN TRUE
    ELSE IF re[i] = "^" THEN j = 1 /\ RegexMatchFrom(re, i + 1, s, j)
    ELSE IF re[i] = "$" THEN j = Len(s) + 1 /\ RegexMatchFrom(re, i + 1, s, j)
    ELSE LET n == AtomLen(re, i)
             q == IF i + n <= Len(re) THEN re[i + n] ELSE ""
             Run(k) == \A m \in 0..(k - 1) : AtomMatches(re, i, s[j + m])
         IN IF q = "*"
            THEN \E k \in 0..(Len(s) - j + 1) :
                    Run(k) /\ RegexMatchFrom(re, i + n + 1, s, j + k)
            ELSE IF q = "+"
            THEN \E k \in 1..(Len(s) - j + 1) :
                    Run(k) /\ RegexMatchFrom(re, i + n + 1, s, j + k)
            ELSE j <= Len(s) /\ AtomMatches(re, i, s[j])
                 /\ RegexMatchFrom(re, i + n, s, j + 1)

\* pattern.search(path) of an anchored expression.
RegexSearch(re, path) ==
    Bind(<<re, path>>, LAMBDA a : RegexMatchFrom(a[1], 1, a[2], 1))

(***************************************************************************)
(* File content                                                            *)
(*                                                                         *)
(* Content is a sequence of units.  A unit is a line terminator ("\n",     *)
(* "\r") or an indivisible piece of line text.  For _apply_fixes a unit is *)
(* one character; for the Python rules a unit is the text of one source    *)
(* line, taken from the vocabulary below, and a column is a unit index.    *)
(***************************************************************************)
IsTerminator(u) == u \in {"\n", "\r"}

\* Number of units of the first line of s, terminator included
\* ("\r\n" is one terminator); s is not empty.
RECURSIVE FirstLineLen(_, _)
FirstLineLen(s, i) ==
    IF i > Len(s) THEN Len(s)
    ELSE IF s[i] = "\n" THEN i
    ELSE IF s[i] = "\r"
         THEN (IF i < Len(s) /\ s[i + 1] = "\n" THEN i + 1 ELSE i)
    ELSE FirstLineLen(s, i + 1)

\* str.splitlines(True): the lines with their terminators.
RECURSIVE SplitLinesKeep(_)
SplitLinesKeep(s) ==
    IF s = <<>> THEN <<>>
    ELSE Bind(FirstLineLen(s, 1), LAMBDA n :
            Bind(SubSeq(s, n + 1, Len(s)), LAMBDA rest :
                <<SubSeq(s, 1, n)>> \o SplitLinesKeep(rest)))

StripTerminator(line) == SelectSeq(line, LAMBDA u : ~IsTerminator(u))

\* str.splitlines(): the lines without their terminators.
SplitLines(s) ==
    Bind(SplitLinesKeep(s), LAMBDA kept :
        [i \in 1..Len(kept) |-> StripTerminator(kept[i])])

\* "".join(lines)
RECURSIVE JoinLines(_)
JoinLines(lines) ==
    IF lines = <<>> THEN <<>> ELSE Head(lines) \o JoinLines(Tail(lines))

\* "\n".join(parts), each part one unit of text
RECURSIVE JoinWithNewline(_)
JoinWithNewline(parts) ==
    IF parts = <<>> THEN <<>>
    ELSE IF Len(parts) = 1 THEN <<parts[1]>>
    ELSE <<parts[1], "\n">> \o JoinWithNewline(Tail(parts))

\* Path.read_text(): universal newlines, "\r\n" and "\r" are read as "\n".
ReadText(data) ==
    StrReplace(StrReplace(data, <<"\r", "\n">>, <<"\n">>), <<"\r">>, <<"\n">>)

\* Path.write_text(content) on a POSIX host: "\n" is written as it is.
WriteText(content) == content

(***************************************************************************)
(* RuleResult and fix application                                          *)
(*                                                                         *)
(* An Optional value is a sequence of length at most one: <<>> is None and *)
(* <<v>> is the value v.                                                   *)
(***************************************************************************)
None == <<>>
Some(v) == <<v>>

\* RuleResult(...) with the defaults of the dataclass: no fix, no fix_type,
\* no fix_range.
RuleResult(rule_id, file_path, line, column, message, severity) ==
    [rule_id |-> rule_id, file_path |-> file_path, line |-> line,
     column |-> column, message |-> message, severity |-> severity,
     fix |-> None, fix_type |-> "None", fix_range |-> None]

WithFix(r, text, fix_type, fix_range) ==
    [r EXCEPT !.fix = Some(text), !.fix_type = fix_type,
              !.fix_range = fix_range]

\* key=lambda r: (r.line, r.column), tuples compared lexicographically
KeyLess(a, b) == a.line < b.line \/ (a.line = b.line /\ a.column < b.column)

\* list.sort(key=..., reverse=True): descending and stable, results with
\* equal keys keep the order in which they were supplied.
RECURSIVE InsertDescending(_, _)
InsertDescending(sorted, r) ==
    IF sorted = <<>> THEN <<r>>
    ELSE IF KeyLess(Head(sorted), r) THEN <<r>> \o sorted
    ELSE <<Head(sorted)>> \o InsertDescending(Tail(sorted), r)

RECURSIVE SortDescending(_)
SortDescending(rs) ==
    IF rs = <<>> THEN <<>>
    ELSE Bind(SortDescending(SubSeq(rs, 1, Len(rs) - 1)), LAMBDA sorted :
            InsertDescending(sorted, rs[Len(rs)]))

Min(a, b) == IF a < b THEN a ELSE b

\* line[:col] and line[col:] for col >= 0
SliceTo(line, col) == SubSeq(line, 1, Min(col, Len(line)))
SliceFrom(line, col) == SubSeq(line, Min(col, Len(line)) + 1, Len(line))

\* The iteration without the test 'result.line > 0': line 0 gives index -1,
\* which Python resolves to the last line.
ApplyOneFixWithoutLowerBound(lines, result) ==
    IF result.fix # None /\ result.fix[1] # <<>>
       /\ result.line <= Len(lines) /\ Len(lines) > 0
    THEN LET line_idx == IF result.line = 0 THEN Len(lines) ELSE result.line
             line == lines[line_idx]
         IN IF result.fix_type = "replace_line"
            THEN [lines EXCEPT ![line_idx] = result.fix[1]]
            ELSE IF result.fix_type = "replace_range"
                    /\ result.fix_range # None
            THEN LET start_col == result.fix_range[1][1]
                     end_col == result.fix_range[1][2]
                 IN [lines EXCEPT ![line_idx] =
                        SliceTo(line, start_col) \o result.fix[1]
                        \o SliceFrom(line, end_col)]
            ELSE lines
    ELSE lines

\* One iteration of the loop of _apply_fixes over the sorted results.
ApplyOneFix(lines, result) ==
    IF result.fix # None /\ result.fix[1] # <<>>
       /\ result.line > 0 /\ result.line <= Len(lines)
    THEN LET line_idx == result.line
             line == lines[line_idx]
         IN IF result.fix_type = "replace_line"
            THEN [lines EXCEPT ![line_idx] = result.fix[1]]
            ELSE IF result.fix_type = "replace_range"
                    /\ result.fix_range # None
            THEN LET start_col == result.fix_range[1][1]
                     end_col == result.fix_range[1][2]
                 IN [lines EXCEPT ![line_idx] =
                        SliceTo(line, start_col) \o result.fix[1]
                        \o SliceFrom(line, end_col)]
            ELSE lines
    ELSE lines

RECURSIVE ApplyAllFixes(_, _)
ApplyAllFixes(lines, sorted) ==
    IF sorted = <<>> THEN lines
    ELSE Bind(ApplyOneFix(lines, Head(sorted)), LAMBDA fixed :
            ApplyAllFixes(fixed, Tail(sorted)))

\* Fixes applied to the content one after the other, in the order given,
\* the lines being split again each time: the variant C9 rules out.
RECURSIVE ApplyFixesInGivenOrder(_, _)
ApplyFixesInGivenOrder(content, results) ==
    IF results = <<>> THEN content
    ELSE Bind(JoinLines(ApplyOneFix(SplitLinesKeep(content), Head(results))),
              LAMBDA fixed : ApplyFixesInGivenOrder(fixed, Tail(results)))

\* LlamaLint._apply_fixes
ApplyFixes(content, results) ==
    Bind(SelectSeq(results, LAMBDA r : r.fix # None),
         LAMBDA fixable_results :
    Bind(SortDescending(fixable_results), LAMBDA sorted :
    Bind(SplitLinesKeep(content), LAMBDA lines :
    Bind(ApplyAllFixes(lines, sorted), LAMBDA fixed_lines :
        JoinLines(fixed_lines)))))

(***************************************************************************)
(* Python source text                                                      *)
(*                                                                         *)
(* The vocabulary of source lines the rules are run on, and what           *)
(* ast.parse makes of each line.  Python's parser is a library: it is      *)
(* modelled by its result on this vocabulary.                              *)
(***************************************************************************)
ImportSysOs == "import sys, os"
ImportSys == "import sys"
ImportOs == "import os"
ImportA == "import a"
FromMathStar == "from math import *"
FromDotImportB == "from . import b"
DefAdd == "def add(a, b):"
ReturnAB == "    return a + b"
ClassUser == "class User:"
DefInit == "    def __init__(self, name):"
SelfName == "        self.name = name"
DefTest == "def test():"
ReturnJoin == "    return os.path.join('a', 'b')"
DefF == "def f(x) -> int:"
ReturnX == "    return x"
AssignX == "x = 1"
ModDocOpen == "\"\"\"Module docstring."
ModDocText == "Add a description of this module here."
DocClose0 == "\"\"\""
FnDocOpen == "    \"\"\"Function description."
Blank4 == "    "
ArgsLine == "    Args:"
ParamA == "        a: Description"
ParamB == "        b: Description"
ParamX == "        x: Description"
ParamK == "        k: Description"
ReturnsLine == "    Returns:"
ValueLine == "        Value"
DocClose4 == "    \"\"\""
ClassDocOpen == "    \"\"\"User class."
ClassDocText == "    Add a description of this class here."
OneLineDoc == "\"\"\"Doc.\"\"\""
FnDocOpen8 == "        \"\"\"Function description."
Blank8 == "        "
ArgsLine8 == "        Args:"
ParamName12 == "            name: Description"
DocClose8 == "        \"\"\""
ImportOsAsO == "import os as o"
FromOsImportPath == "from os import path"
FromOsPathImportJoin == "from os.path import join"
FromFutureImport == "from __future__ import annotations"
UseOs == "os.getcwd()"
UseO == "o.getcwd()"
DefG == "def g(x, *, k):"
DefPrivate == "def _p(x):"
OneLineDoc4 == "    \"\"\"Doc.\"\"\""
YieldsDoc4 == "    \"\"\"Yields: values.\"\"\""
SphinxDoc4 == "    \"\"\":param x: value. :return: value.\"\"\""
AttributesLine == "    Attributes:"
ImportSysOsAsO == "import sys, os as o"
ImportSysOs4 == "    import sys, os"
ImportSys4 == "    import sys"
ImportOs4 == "    import os"

Alias(name, top, asname) == [name |-> name, top |-> top, asname |-> asname]

BaseStmt ==
    [kind |-> "simple", tq |-> 0, indent |-> 0, names |-> <<>>,
     module |-> None, level |-> 0, name |-> "", args |-> <<>>,
     kwonlyargs |-> <<>>, returns |-> FALSE, uses |-> {}, marks |-> {}]

\* The node ast.parse builds for one line of the vocabulary: kind is
\*   "import" (ast.Import), "from" (ast.ImportFrom), "def" (ast.FunctionDef),
\*   "class" (ast.ClassDef), "simple" (any other statement),
\*   "prose" (text that is Python only inside a string literal),
\*   "blank" (white space), "str" (a string literal);
\* tq counts the triple quotes in the line; indent is col_offset; uses are
\* the ast.Name ids and the base names of the ast.Attribute nodes of the
\* statement; args are node.args.args and kwonlyargs node.args.kwonlyargs;
\* marks are the section markers found in documentation text.
Stmt(u) ==
    CASE u = ImportSysOs ->
            [BaseStmt EXCEPT !.kind = "import",
                !.names = <<Alias("sys", "sys", ""), Alias("os", "os", "")>>]
      [] u = ImportSys ->
            [BaseStmt EXCEPT !.kind = "import",
                !.names = <<Alias("sys", "sys", "")>>]
      [] u = ImportOs ->
            [BaseStmt EXCEPT !.kind = "import",
                !.names = <<Alias("os", "os", "")>>]
      [] u = ImportA ->
            [BaseStmt EXCEPT !.kind = "import",
                !.names = <<Alias("a", "a", "")>>]
      [] u = FromMathStar ->
            [BaseStmt EXCEPT !.kind = "from", !.module = Some("math"),
                !.names = <<Alias("*", "*", "")>>]
      [] u = FromDotImportB ->
            [BaseStmt EXCEPT !.kind = "from", !.level = 1,
                !.names = <<Alias("b", "b", "")>>]
      [] u = DefAdd ->
            [BaseStmt EXCEPT !.kind = "def", !.name = "add",
                !.args = <<"a", "b">>]
      [] u = ReturnAB ->
            [BaseStmt EXCEPT !.indent = 4, !.uses = {"a", "b"}]
      [] u = ClassUser -> [BaseStmt EXCEPT !.kind = "class", !.name = "User"]
      [] u = DefInit ->
            [BaseStmt EXCEPT !.kind = "def", !.indent = 4,
                !.name = "__init__", !.args = <<"self", "name">>]
      [] u = SelfName ->
            [BaseStmt EXCEPT !.indent = 8, !.uses = {"self", "name"}]
      [] u = DefTest -> [BaseStmt EXCEPT !.kind = "def", !.name = "test"]
      [] u = ReturnJoin -> [BaseStmt EXCEPT !.indent = 4, !.uses = {"os"}]
      [] u = DefF ->
            [BaseStmt EXCEPT !.kind = "def", !.name = "f", !.args = <<"x">>,
                !.returns = TRUE, !.uses = {"int"}]
      [] u = ReturnX -> [BaseStmt EXCEPT !.indent = 4, !.uses = {"x"}]
      [] u = AssignX -> [BaseStmt EXCEPT !.uses = {"x"}]
      [] u = ModDocOpen -> [BaseStmt EXCEPT !.kind = "str", !.tq = 1]
      [] u = ModDocText -> [BaseStmt EXCEPT !.kind = "prose"]
      [] u = DocClose0 -> [BaseStmt EXCEPT !.kind = "str", !.tq = 1]
      [] u = FnDocOpen ->
            [BaseStmt EXCEPT !.kind = "str", !.tq = 1, !.indent = 4]
      [] u = Blank4 -> [BaseStmt EXCEPT !.kind = "blank"]
      [] u = ArgsLine ->
            [BaseStmt EXCEPT !.kind = "prose", !.indent = 4,
                !.marks = {"Args:"}]
      [] u = ParamA -> [BaseStmt EXCEPT !.kind = "prose", !.indent = 8]
      [] u = ParamB -> [BaseStmt EXCEPT !.kind = "prose", !.indent = 8]
      [] u = ParamX -> [BaseStmt EXCEPT !.kind = "prose", !.indent = 8]
      [] u = ParamK -> [BaseStmt EXCEPT !.kind = "prose", !.indent = 8]
      [] u = ReturnsLine ->
            [BaseStmt EXCEPT !.kind = "prose", !.indent = 4,
                !.marks = {"Returns:"}]
      [] u = ValueLine -> [BaseStmt EXCEPT !.kind = "prose", !.indent = 8]
      [] u = DocClose4 ->
            [BaseStmt EXCEPT !.kind = "str", !.tq = 1, !.indent = 4]
      [] u = ClassDocOpen ->
            [BaseStmt EXCEPT !.kind = "str", !.tq = 1, !.indent = 4]
      [] u = ClassDocText -> [BaseStmt EXCEPT !.kind = "prose", !.indent = 4]
      [] u = OneLineDoc -> [BaseStmt EXCEPT !.kind = "str", !.tq = 2]
      [] u = FnDocOpen8 ->
            [BaseStmt EXCEPT !.kind = "str", !.tq = 1, !.indent = 8]
      [] u = Blank8 -> [BaseStmt EXCEPT !.kind = "blank"]
      [] u = ArgsLine8 ->
            [BaseStmt EXCEPT !.kind = "prose", !.indent = 8,
                !.marks = {"Args:"}]
      [] u = ParamName12 -> [BaseStmt EXCEPT !.kind = "prose", !.indent = 12]
      [] u = DocClose8 ->
            [BaseStmt EXCEPT !.kind = "str", !.tq = 1, !.indent = 8]
      [] u = ImportOsAsO ->
            [BaseStmt EXCEPT !.kind = "import",
                !.names = <<Alias("os", "os", "o")>>]
      [] u = ImportSysOsAsO ->
            [BaseStmt EXCEPT !.kind = "import",
                !.names = <<Alias("sys", "sys", ""), Alias("os", "os", "o")>>]
      [] u = ImportSysOs4 ->
            [BaseStmt EXCEPT !.kind = "import", !.indent = 4,
                !.names = <<Alias("sys", "sys", ""), Alias("os", "os", "")>>]
      [] u = ImportSys4 ->
            [BaseStmt EXCEPT !.kind = "import", !.indent = 4,
                !.names = <<Alias("sys", "sys", "")>>]
      [] u = ImportOs4 ->
            [BaseStmt EXCEPT !.kind = "import", !.indent = 4,
                !.names = <<Alias("os", "os", "")>>]
      [] u = FromOsImportPath ->
            [BaseStmt EXCEPT !.kind = "from", !.module = Some("os"),
                !.names = <<Alias("path", "path", "")>>]
      [] u = FromOsPathImportJoin ->
            [BaseStmt EXCEPT !.kind = "from", !.module = Some("os.path"),
                !.names = <<Alias("join", "join", "")>>]
      [] u = FromFutureImport ->
            [BaseStmt EXCEPT !.kind = "from", !.module = Some("__future__"),
                !.names = <<Alias("annotations", "annotations", "")>>]
      [] u = UseOs -> [BaseStmt EXCEPT !.uses = {"os"}]
      [] u = UseO -> [BaseStmt EXCEPT !.uses = {"o"}]
      [] u = DefG ->
            [BaseStmt EXCEPT !.kind = "def", !.name = "g", !.args = <<"x">>,
                !.kwonlyargs = <<"k">>]
      [] u = DefPrivate ->
            [BaseStmt EXCEPT !.kind = "def", !.name = "_p", !.args = <<"x">>]
      [] u = OneLineDoc4 ->
            [BaseStmt EXCEPT !.kind = "str", !.tq = 2, !.indent = 4]
      [] u = YieldsDoc4 ->
            [BaseStmt EXCEPT !.kind = "str", !.tq = 2, !.indent = 4,
                !.marks = {"Yields:"}]
      [] u = SphinxDoc4 ->
            [BaseStmt EXCEPT !.kind = "str", !.tq = 2, !.indent = 4,
                !.marks = {":param", ":return:"}]
      [] u = AttributesLine ->
            [BaseStmt EXCEPT !.kind = "prose", !.indent = 4,
                !.marks = {"Attributes:"}]
      [] OTHER -> [BaseStmt EXCEPT !.kind = "prose"]

IsHeader(node) == node.kind \in {"def", "class"}

\* A statement of the token stream: the node of its first line, the line
\* number (lineno) and, for a string literal, the marks of its text.
Token(u, lineno) == Stmt(u) @@ [lineno |-> lineno]

\* The tokenizer, one unit of one physical line at a time.  st.inStr: inside
\* an open triple-quoted string; st.hasTok: the line holds a token already;
\* st.lastStr: that token is a string literal; st.err: the line of the first
\* error, 0 when there is none.
LexUnit(st, u, lineno) ==
    LET node == Stmt(u)
        last == Len(st.stmts)
    IN IF st.err # 0 THEN st
       ELSE IF st.inStr
       THEN CASE node.tq = 0 ->
                    [st EXCEPT !.stmts[last].marks = @ \cup node.marks]
              [] node.tq = 1 ->
                    [st EXCEPT !.inStr = FALSE, !.hasTok = TRUE,
                               !.lastStr = TRUE]
              [] OTHER -> [st EXCEPT !.err = lineno]
       ELSE IF node.kind = "blank" THEN st
       ELSE IF st.hasTok
       THEN \* adjacent string literals are concatenated; any other text
            \* after a complete statement is invalid syntax
            IF st.lastStr /\ node.tq > 0
            THEN [st EXCEPT !.inStr = (node.tq = 1)]
            ELSE [st EXCEPT !.err = lineno]
       ELSE IF node.kind = "prose" THEN [st EXCEPT !.err = lineno]
       ELSE [st EXCEPT !.stmts = Append(@, Token(u, lineno)),
                       !.hasTok = TRUE,
                       !.inStr = (node.tq = 1),
                       !.lastStr = (node.tq = 2)]

RECURSIVE LexLine(_, _, _)
LexLine(st, line, lineno) ==
    IF line = <<>> THEN st
    ELSE Bind(LexUnit(st, Head(line), lineno), LAMBDA next :
            LexLine(next, Tail(line), lineno))

RECURSIVE LexLines(_, _, _)
LexLines(st, lines, lineno) ==
    IF lineno > Len(lines) THEN st
    ELSE LET atStart == IF st.inStr THEN st
                        ELSE [st EXCEPT !.hasTok = FALSE, !.lastStr = FALSE]
         IN Bind(LexLine(atStart, lines[lineno], lineno), LAMBDA next :
                LexLines(next, lines, lineno + 1))

\* The token stream of the content; a string left open at the end of the
\* file is an error reported at the line that opens it.
Lex(content) ==
    Bind(SplitLines(content), LAMBDA lines :
    Bind(LexLines([inStr |-> FALSE, hasTok |-> FALSE, lastStr |-> FALSE,
                   err |-> 0, stmts |-> <<>>], lines, 1), LAMBDA st :
        IF st.err = 0 /\ st.inStr
        THEN [st EXCEPT !.err = st.stmts[Len(st.stmts)].lineno]
        ELSE st))

\* Index of the statement whose block statement i belongs to: the nearest
\* earlier statement that is less indented; 0 is the module.
RECURSIVE ParentFrom(_, _, _)
ParentFrom(stmts, i, j) ==
    IF j = 0 THEN 0
    ELSE IF stmts[j].indent < stmts[i].indent THEN j
    ELSE ParentFrom(stmts, i, j - 1)

Parent(stmts, i) == ParentFrom(stmts, i, i - 1)

\* Is statement i placed as Python's block structure demands?
IndentOk(stmts, i) ==
    IF i = 1 THEN stmts[1].indent = 0
    ELSE LET prev == stmts[i - 1]
             p == Parent(stmts, i)
         IN IF IsHeader(prev) THEN stmts[i].indent > prev.indent
            ELSE /\ stmts[i].indent <= prev.indent
                 /\ \/ stmts[i].indent = 0
                    \/ /\ p # 0
                       /\ IsHeader(stmts[p])
                       /\ \E k \in (p + 1)..(i - 1) :
                             /\ stmts[k].indent = stmts[i].indent
                             /\ Parent(stmts, k) = p

\* ast.parse(content): the statements of the module, or the line of the
\* SyntaxError (error # 0).
Parse(content) ==
    Bind(Lex(content), LAMBDA lx :
    LET stmts == lx.stmts
        n == Len(stmts)
        badIdx == {i \in 1..n : ~IndentOk(stmts, i)}
        firstBad == IF badIdx = {} THEN 0
                    ELSE stmts[CHOOSE i \in badIdx :
                                   \A k \in badIdx : i <= k].lineno
        openHeader == IF lx.err = 0 /\ n > 0 /\ IsHeader(stmts[n])
                      THEN stmts[n].lineno ELSE 0
        error == IF firstBad # 0 /\ (lx.err = 0 \/ firstBad <= lx.err)
                 THEN firstBad
                 ELSE IF lx.err # 0 THEN lx.err
                 ELSE openHeader
    IN [error |-> error, stmts |-> stmts])

\* Nesting depth of statement i: the number of blocks around it.
RECURSIVE Depth(_, _)
Depth(stmts, i) ==
    IF Parent(stmts, i) = 0 THEN 0 ELSE 1 + Depth(stmts, Parent(stmts, i))

\* ast.walk(tree) is breadth first: statements by depth, then in file order.
RECURSIVE WalkLevels(_, _, _)
WalkLevels(stmts, d, maxDepth) ==
    IF d > maxDepth THEN <<>>
    ELSE SelectSeq([i \in 1..Len(stmts) |-> i],
                   LAMBDA i : Depth(stmts, i) = d)
         \o WalkLevels(stmts, d + 1, maxDepth)

Walk(stmts) == WalkLevels(stmts, 0, Len(stmts))

\* ast.get_docstring(node) for the module (i = 0) or the def/class at i:
\* the first statement of the body when it is a string literal.
DocstringIndex(stmts, i) ==
    IF i + 1 <= Len(stmts)
       /\ stmts[i + 1].kind = "str"
       /\ Parent(stmts, i + 1) = i
    THEN i + 1 ELSE 0

(***************************************************************************)
(* Rules                                                                   *)
(***************************************************************************)
ImportsId == "python-imports"
DocstringsId == "python-docstrings"
NamingId == "python-naming"
JSImportsId == "javascript-imports"
TypesId == "typescript-types"

MaxImportLineLength == 100

\* The declared options of each rule class, with their defaults.
Options(rule_id) ==
    CASE rule_id = ImportsId ->
            [check_order |-> TRUE, require_absolute_imports |-> FALSE,
             allow_unused_imports |-> FALSE,
             max_import_line_length |-> MaxImportLineLength]
      [] rule_id = DocstringsId ->
            [required_modules |-> TRUE, required_classes |-> TRUE,
             required_methods |-> TRUE, ignore_private |-> TRUE,
             ignore_dunder |-> TRUE, ignore_test_methods |-> TRUE,
             style |-> "google"]
      [] rule_id = NamingId ->
            [class_style |-> "PascalCase", function_style |-> "snake_case",
             variable_style |-> "snake_case",
             constant_style |-> "UPPER_CASE"]
      [] rule_id = JSImportsId ->
            [check_order |-> TRUE, prefer_named_exports |-> FALSE,
             prefer_es_modules |-> TRUE]
      [] rule_id = TypesId ->
            [require_return_types |-> TRUE, require_parameter_types |-> TRUE,
             no_any |-> TRUE, prefer_interfaces |-> FALSE]

\* Rule.get_option
GetOption(rule, name) ==
    IF name \in DOMAIN Options(rule.id)
    THEN IF name \in DOMAIN rule.config THEN rule.config[name]
         ELSE Options(rule.id)[name]
    ELSE None

\* What a call of check gives: a list of results, or an exception.
Returned(results) == [raised |-> FALSE, results |-> results]
Raised == [raised |-> TRUE, results |-> <<>>]

\* The except SyntaxError branch of both Python rules.  The parser's column
\* (e.offset) is not modelled and is reported as 0.
SyntaxErrorResult(rule, file_path, lineno) ==
    RuleResult(rule.id, file_path, lineno, 0, <<"Syntax error">>,
               rule.severity)

\* name.split(".")[0]
TopLevel(name) ==
    CASE name = "os.path" -> "os"
      [] OTHER -> name

\* The position of a name in the lexicographic order of strings.
NameRank(name) ==
    CASE name = "*" -> 0
      [] name = "__future__" -> 1
      [] name = "a" -> 2
      [] name = "b" -> 3
      [] name = "math" -> 4
      [] name = "os" -> 5
      [] name = "sys" -> 6

StrGreater(a, b) == NameRank(a) > NameRank(b)

\* len(line) of a line text
TextLength(u) ==
    CASE u = ImportSysOs -> 14
      [] u = ImportSys -> 10
      [] u = ImportOs -> 9
      [] u = ImportA -> 8
      [] u = FromMathStar -> 18
      [] u = FromDotImportB -> 15
      [] u = ImportOsAsO -> 14
      [] u = ImportSysOsAsO -> 19
      [] u = ImportSysOs4 -> 18
      [] u = ImportSys4 -> 14
      [] u = ImportOs4 -> 13
      [] u = FromOsImportPath -> 19
      [] u = FromOsPathImportJoin -> 24
      [] u = FromFutureImport -> 34
      [] u = Blank4 -> 4
      [] u = Blank8 -> 8

RECURSIVE LineLength(_)
LineLength(line) ==
    IF line = <<>> THEN 0 ELSE TextLength(Head(line)) + LineLength(Tail(line))

\* f"{indentation}import {name.name}"
ImportLine(indent, name) ==
    CASE indent = 0 /\ name = "sys" -> ImportSys
      [] indent = 0 /\ name = "os" -> ImportOs
      [] indent = 0 /\ name = "a" -> ImportA
      [] indent = 4 /\ name = "sys" -> ImportSys4
      [] indent = 4 /\ name = "os" -> ImportOs4

\* ImportsRule._fix_multi_import
FixMultiImport(node) ==
    JoinWithNewline([i \in 1..Len(node.names) |->
                        ImportLine(node.indent, node.names[i].name)])

IsFuture(node) == node.kind = "from" /\ node.module = Some("__future__")

\* _is_proper_order comparing two plain imports with ">=" for ">": a module
\* imported twice in a row counts as out of order.
IsProperOrderNoRepeat(prev_import, current_import) ==
    IF IsFuture(current_import) /\ ~IsFuture(prev_import) THEN "false"
    ELSE IF prev_import.kind = "import" /\ current_import.kind = "import"
    THEN IF ~StrGreater(TopLevel(current_import.names[1].name),
                        TopLevel(prev_import.names[1].name))
         THEN "false" ELSE "true"
    ELSE IF prev_import.kind = "from" /\ current_import.kind = "from"
    THEN IF prev_import.module # None /\ current_import.module # None
            /\ StrGreater(TopLevel(prev_import.module[1]),
                          TopLevel(current_import.module[1]))
         THEN "false" ELSE "true"
    ELSE IF prev_import.kind = "import" /\ current_import.kind = "from"
    THEN IF current_import.module = None THEN "raise"
         ELSE IF TopLevel(prev_import.names[1].name)
                 = TopLevel(current_import.module[1])
         THEN "false" ELSE "true"
    ELSE "true"

\* ImportsRule._is_proper_order: "true", "false", or "raise" when
\* current_import.module is None and .split is called on it.
IsProperOrder(prev_import, current_import) ==
    IF IsFuture(current_import) /\ ~IsFuture(prev_import) THEN "false"
    ELSE IF prev_import.kind = "import" /\ current_import.kind = "import"
    THEN IF StrGreater(TopLevel(prev_import.names[1].name),
                       TopLevel(current_import.names[1].name))
         THEN "false" ELSE "true"
    ELSE IF prev_import.kind = "from" /\ current_import.kind = "from"
    THEN IF prev_import.module # None /\ current_import.module # None
            /\ StrGreater(TopLevel(prev_import.module[1]),
                          TopLevel(current_import.module[1]))
         THEN "false" ELSE "true"
    ELSE IF prev_import.kind = "import" /\ current_import.kind = "from"
    THEN IF current_import.module = None THEN "raise"
         ELSE IF TopLevel(prev_import.names[1].name)
                 = TopLevel(current_import.module[1])
         THEN "false" ELSE "true"
    ELSE "true"

\* f"{node.module}": the module name, "None" for a relative import that
\* names no module
ModuleText(module) == IF module = None THEN "None" ELSE module[1]

\* asname or name
BoundName(alias) == IF alias.asname # "" THEN alias.asname ELSE alias.name

\* The results the first loop of ImportsRule.check appends for one node.
ImportNodeResults(rule, file_path, node, lines) ==
    LET at(message) == RuleResult(rule.id, file_path, node.lineno,
                                  node.indent, message, rule.severity)
        length == LineLength(lines[node.lineno])
    IN (IF node.kind = "import" /\ Len(node.names) > 1
        THEN <<WithFix(at(<<"Multiple modules imported on one line">>),
                       FixMultiImport(node), "replace_line", None)>>
        ELSE <<>>)
       \o (IF node.kind = "from"
              /\ \E i \in 1..Len(node.names) : node.names[i].name = "*"
           THEN <<at(<<"Wildcard import from ", ModuleText(node.module)>>)>>
           ELSE <<>>)
       \o (IF node.kind = "from" /\ node.level > 0
              /\ GetOption(rule, "require_absolute_imports")
           THEN <<at(<<"Relative import used">>)>>
           ELSE <<>>)
       \o (IF length > GetOption(rule, "max_import_line_length")
           THEN <<at(<<"Import line too long">>)>>
           ELSE <<>>)

\* The unused-import loop without its tests for the wildcard: "*" is
\* looked up among the used names like any imported name.
RECURSIVE UnusedResultsAnyName(_, _, _, _, _, _)
UnusedResultsAnyName(rule, file_path, node, i, used_names, imported_names) ==
    IF i > Len(node.names) THEN <<>>
    ELSE LET alias == node.names[i]
             imported_name == BoundName(alias)
             message == IF node.kind = "import"
                        THEN <<"Unused import: ", imported_name>>
                        ELSE <<"Unused import: ", ModuleText(node.module),
                               imported_name>>
         IN (IF imported_name \notin used_names
             THEN <<RuleResult(rule.id, file_path, node.lineno, node.indent,
                               message, rule.severity)>>
             ELSE <<>>)
            \o UnusedResultsAnyName(rule, file_path, node, i + 1, used_names,
                                    imported_names)

\* The "Unused import" results of one import node.
RECURSIVE UnusedResults(_, _, _, _, _, _)
UnusedResults(rule, file_path, node, i, used_names, imported_names) ==
    IF i > Len(node.names) THEN <<>>
    ELSE LET alias == node.names[i]
             imported_name == BoundName(alias)
             flagged == /\ ~(node.kind = "from" /\ alias.name = "*")
                        /\ imported_name \notin used_names
                        /\ imported_name \in imported_names
             message == IF node.kind = "import"
                        THEN <<"Unused import: ", imported_name>>
                        ELSE <<"Unused import: ", ModuleText(node.module),
                               imported_name>>
         IN (IF flagged
             THEN <<RuleResult(rule.id, file_path, node.lineno, node.indent,
                               message, rule.severity)>>
             ELSE <<>>)
            \o UnusedResults(rule, file_path, node, i + 1, used_names,
                             imported_names)

RECURSIVE ConcatMap(_, _)
ConcatMap(F(_), s) ==
    IF s = <<>> THEN <<>> ELSE F(Head(s)) \o ConcatMap(F, Tail(s))

\* ImportsRule.check
ImportsCheck(rule, file_path, content) ==
    Bind(Parse(content), LAMBDA tree :
    Bind(SplitLines(content), LAMBDA lines :
    Bind(SelectSeq(Walk(tree.stmts),
                   LAMBDA i : tree.stmts[i].kind \in {"import", "from"}),
         LAMBDA imports :
    LET stmts == tree.stmts
        n == Len(imports)
        node(k) == stmts[imports[k]]
        perNode == ConcatMap(LAMBDA i : ImportNodeResults(rule, file_path,
                                                          stmts[i], lines),
                             imports)
        checkOrder == GetOption(rule, "check_order") /\ n > 1
        order(k) == IsProperOrder(node(k - 1), node(k))
        orderRaises == checkOrder /\ \E k \in 2..n : order(k) = "raise"
        ordering ==
            IF checkOrder
            THEN ConcatMap(LAMBDA k :
                     IF order(k) = "false"
                     THEN <<RuleResult(rule.id, file_path, node(k).lineno,
                                       node(k).indent,
                                       <<"Imports not in proper order">>,
                                       rule.severity)>>
                     ELSE <<>>,
                     [k \in 1..(n - 1) |-> k + 1])
            ELSE <<>>
        imported_names ==
            UNION {{BoundName(node(k).names[i]) :
                        i \in {j \in 1..Len(node(k).names) :
                                  node(k).names[j].name # "*"}} :
                   k \in 1..n}
        used_names == UNION {stmts[i].uses : i \in 1..Len(stmts)}
        unused ==
            IF ~GetOption(rule, "allow_unused_imports")
            THEN ConcatMap(LAMBDA i :
                     IF IsFuture(stmts[i]) THEN <<>>
                     ELSE UnusedResults(rule, file_path, stmts[i], 1,
                                        used_names, imported_names),
                     imports)
            ELSE <<>>
    IN IF tree.error # 0
       THEN Returned(<<SyntaxErrorResult(rule, file_path, tree.error)>>)
       ELSE IF orderRaises THEN Raised
       ELSE Returned(perNode \o ordering \o unused))))

\* DocstringsRule._should_ignore_function; the tests on the name are
\* str.startswith and str.endswith.
StartsWithUnderscore(name) == name \in {"__init__", "_private", "_p"}
StartsWithDunder(name) == name \in {"__init__"}
EndsWithDunder(name) == name \in {"__init__"}
StartsWithTestPrefix(name) == name \in {"test_it"}

ShouldIgnoreFunction(rule, node) ==
    \/ /\ GetOption(rule, "ignore_private")
       /\ StartsWithUnderscore(node.name)
       /\ ~StartsWithDunder(node.name)
    \/ /\ GetOption(rule, "ignore_dunder")
       /\ StartsWithDunder(node.name)
       /\ EndsWithDunder(node.name)
    \/ /\ GetOption(rule, "ignore_test_methods")
       /\ StartsWithTestPrefix(node.name)

\* _check_docstring_style stopping at the first issue it finds for the
\* google convention.
CheckDocstringStyleFirstIssue(rule, marks, node_type) ==
    LET style == GetOption(rule, "style")
        issue(cond, text) == IF cond THEN <<text>> ELSE <<>>
        args == issue(node_type = "function" /\ "Args:" \notin marks
                      /\ "Parameters:" \notin marks,
                      "missing Args/Parameters section")
    IN IF style = "google"
       THEN IF args # <<>> THEN args
            ELSE issue(node_type = "function" /\ "Returns:" \notin marks
                       /\ "Yields:" \notin marks,
                       "missing Returns/Yields section")
                 \o issue(node_type = "class" /\ "Attributes:" \notin marks,
                          "missing Attributes section")
       ELSE IF style = "sphinx"
       THEN issue(node_type = "function" /\ ":param" \notin marks,
                  "missing :param directives")
            \o issue(node_type = "function" /\ ":return:" \notin marks,
                     "missing :return: directive")
       ELSE IF style = "numpy"
       THEN issue(node_type = "function"
                  /\ "Parameters\n---------" \notin marks,
                  "missing Parameters section")
            \o issue(node_type = "function"
                     /\ "Returns\n-------" \notin marks,
                     "missing Returns section")
       ELSE <<>>

\* DocstringsRule._check_docstring_style: the list of issues; marks are the
\* section markers contained in the docstring.
CheckDocstringStyle(rule, marks, node_type) ==
    LET style == GetOption(rule, "style")
        issue(cond, text) == IF cond THEN <<text>> ELSE <<>>
    IN IF style = "google"
       THEN issue(node_type = "function" /\ "Args:" \notin marks
                  /\ "Parameters:" \notin marks,
                  "missing Args/Parameters section")
            \o issue(node_type = "function" /\ "Returns:" \notin marks
                     /\ "Yields:" \notin marks,
                     "missing Returns/Yields section")
            \o issue(node_type = "class" /\ "Attributes:" \notin marks,
                     "missing Attributes section")
       ELSE IF style = "sphinx"
       THEN issue(node_type = "function" /\ ":param" \notin marks,
                  "missing :param directives")
            \o issue(node_type = "function" /\ ":return:" \notin marks,
                     "missing :return: directive")
       ELSE IF style = "numpy"
       THEN issue(node_type = "function"
                  /\ "Parameters\n---------" \notin marks,
                  "missing Parameters section")
            \o issue(node_type = "function"
                     /\ "Returns\n-------" \notin marks,
                     "missing Returns section")
       ELSE <<>>

\* The lines of the synthesized function docstring, by indentation.
DocOpenLine(indent) == CASE indent = 0 -> FnDocOpen [] indent = 4 -> FnDocOpen8
DocBlankLine(indent) == CASE indent = 0 -> Blank4 [] indent = 4 -> Blank8
DocArgsLine(indent) == CASE indent = 0 -> ArgsLine [] indent = 4 -> ArgsLine8
DocReturnsLine(indent) == CASE indent = 0 -> ReturnsLine
DocValueLine(indent) == CASE indent = 0 -> ValueLine
DocCloseLine(indent) == CASE indent = 0 -> DocClose4 [] indent = 4 -> DocClose8
DocParamLine(indent, arg) ==
    CASE indent = 0 /\ arg = "a" -> ParamA
      [] indent = 0 /\ arg = "b" -> ParamB
      [] indent = 0 /\ arg = "x" -> ParamX
      [] indent = 0 /\ arg = "k" -> ParamK
      [] indent = 4 /\ arg = "name" -> ParamName12

\* fixed_docstring of _check_function_docstring
FunctionDocstringFix(node) ==
    LET i == node.indent
        params == SelectSeq(node.args, LAMBDA a : a # "self" /\ a # "cls")
        docstring_lines ==
            <<DocOpenLine(i), DocBlankLine(i)>>
            \o (IF params # <<>>
                THEN <<DocArgsLine(i)>>
                     \o [k \in 1..Len(params) |-> DocParamLine(i, params[k])]
                     \o <<DocBlankLine(i)>>
                ELSE <<>>)
            \o (IF node.returns
                THEN <<DocReturnsLine(i), DocValueLine(i), DocBlankLine(i)>>
                ELSE <<>>)
            \o <<DocCloseLine(i)>>
    IN JoinWithNewline(docstring_lines)

\* The fix of the "Module lacks a docstring" result.
ModuleDocstringFix ==
    <<ModDocOpen, "\n", "\n", ModDocText, "\n", DocClose0, "\n", "\n">>

\* The fix of the "Class ... lacks a docstring" result; the class name of
\* the vocabulary is User.
ClassDocstringFix(node) ==
    <<ClassDocOpen, "\n", Blank4, "\n", ClassDocText, "\n", DocClose4>>

\* DocstringsRule._check_class_docstring
CheckClassDocstring(rule, file_path, stmts, i) ==
    LET node == stmts[i]
        doc == DocstringIndex(stmts, i)
        at(message) == RuleResult(rule.id, file_path, node.lineno,
                                  node.indent, message, rule.severity)
        style_issues == CheckDocstringStyle(rule, stmts[doc].marks, "class")
    IN IF ~GetOption(rule, "required_classes") THEN <<>>
       ELSE IF doc = 0
       THEN <<WithFix(at(<<"Class lacks a docstring", node.name>>),
                      ClassDocstringFix(node), "replace_line", None)>>
       ELSE IF style_issues # <<>> /\ GetOption(rule, "style") # "any"
       THEN <<at(<<"Class docstring style issues", node.name>>
                 \o style_issues)>>
       ELSE <<>>

\* DocstringsRule._check_function_docstring
CheckFunctionDocstring(rule, file_path, stmts, i) ==
    LET node == stmts[i]
        doc == DocstringIndex(stmts, i)
        at(message) == RuleResult(rule.id, file_path, node.lineno,
                                  node.indent, message, rule.severity)
        style_issues == CheckDocstringStyle(rule, stmts[doc].marks,
                                            "function")
    IN IF ~GetOption(rule, "required_methods") THEN <<>>
       ELSE IF ShouldIgnoreFunction(rule, node) THEN <<>>
       ELSE IF doc = 0
       THEN <<WithFix(at(<<"Function lacks a docstring", node.name>>),
                      FunctionDocstringFix(node), "replace_line", None)>>
       ELSE IF style_issues # <<>> /\ GetOption(rule, "style") # "any"
       THEN <<at(<<"Function docstring style issues", node.name>>
                 \o style_issues)>>
       ELSE <<>>

\* DocstringsRule.check
DocstringsCheck(rule, file_path, content) ==
    Bind(Parse(content), LAMBDA tree :
    LET stmts == tree.stmts
        module ==
            IF GetOption(rule, "required_modules")
               /\ DocstringIndex(stmts, 0) = 0
            THEN <<WithFix(RuleResult(rule.id, file_path, 1, 0,
                                      <<"Module lacks a docstring">>,
                                      rule.severity),
                           ModuleDocstringFix, "replace_line", None)>>
            ELSE <<>>
        nodes ==
            ConcatMap(LAMBDA i :
                IF stmts[i].kind = "class"
                THEN CheckClassDocstring(rule, file_path, stmts, i)
                ELSE IF stmts[i].kind = "def"
                THEN CheckFunctionDocstring(rule, file_path, stmts, i)
                ELSE <<>>,
                Walk(stmts))
    IN IF tree.error # 0
       THEN Returned(<<SyntaxErrorResult(rule, file_path, tree.error)>>)
       ELSE Returned(module \o nodes))

\* Rule.check of a loaded rule: the three stub rules return no result.
RuleCheck(rule, file_path, content) ==
    CASE rule.id = ImportsId -> ImportsCheck(rule, file_path, content)
      [] rule.id = DocstringsId -> DocstringsCheck(rule, file_path, content)
      [] rule.id = NamingId -> Returned(<<>>)
      [] rule.id = JSImportsId -> Returned(<<>>)
      [] rule.id = TypesId -> Returned(<<>>)

(***************************************************************************)
(* Configuration                                                           *)
(*                                                                         *)
(* A glob pattern and a path are sequences of characters.                  *)
(***************************************************************************)
PyAnywhere == <<"*", "*", "/", "*", ".", "p", "y">>
JsAnywhere == <<"*", "*", "/", "*", ".", "j", "s">>
TsAnywhere == <<"*", "*", "/", "*", ".", "t", "s">>
JsxAnywhere == <<"*", "*", "/", "*", ".", "j", "s", "x">>
TsxAnywhere == <<"*", "*", "/", "*", ".", "t", "s", "x">>
InNodeModules == <<"*", "*", "/", "n", "o", "d", "e", "_", "m", "o", "d", "u", "l", "e", "s", "/", "*", "*">>
InVenv == <<"*", "*", "/", ".", "v", "e", "n", "v", "/", "*", "*">>
InPycache == <<"*", "*", "/", "_", "_", "p", "y", "c", "a", "c", "h", "e", "_", "_", "/", "*", "*">>
InDist == <<"*", "*", "/", "d", "i", "s", "t", "/", "*", "*">>
InBuild == <<"*", "*", "/", "b", "u", "i", "l", "d", "/", "*", "*">>
Anything == <<"*", "*", "/", "*">>
PyHere == <<"*", ".", "p", "y">>
PyOneDown == <<"*", "/", "*", ".", "p", "y">>
PyOneDownAbs == <<"/", "*", "/", "*", ".", "p", "y">>
NamedB == <<"b", ".", "p", "y">>
NamedTB == <<"/", "t", "/", "b", ".", "p", "y">>
DirT == <<"/", "t">>
BAnywhere == <<"*", "*", "/", "b", ".", "p", "y">>

\* Config(): the defaults of Config.__init__.
DefaultConfig ==
    [include |-> <<PyAnywhere, JsAnywhere, TsAnywhere, JsxAnywhere,
                   TsxAnywhere>>,
     exclude |-> <<InNodeModules, InVenv, InPycache, InDist, InBuild>>,
     disabled_rules |-> {},
     rule_severity |-> <<>>,
     rule_configs |-> <<>>]

\* Config(include=..., exclude=...): an empty list is replaced by the
\* default ("include or [...]").
Config(include, exclude) ==
    [DefaultConfig EXCEPT
        !.include = IF include = <<>> THEN DefaultConfig.include
                    ELSE include,
        !.exclude = IF exclude = <<>> THEN DefaultConfig.exclude
                    ELSE exclude]

IncludePy == <<PyHere, PyAnywhere, PyOneDown, PyOneDownAbs>>

Configs ==
    {DefaultConfig,
     Config(IncludePy, <<NamedB, NamedTB>>),
     Config(IncludePy, <<DirT, BAnywhere>>),
     Config(IncludePy, <<>>),
     Config(<<PyHere>>, <<>>)}

(***************************************************************************)
(* Rule registry and rule instances                                        *)
(***************************************************************************)
\* _RULES, the registry, in registration order.
BuiltinRules == <<ImportsId, DocstringsId, NamingId, JSImportsId, TypesId>>

FilePatterns(rule_id) ==
    CASE rule_id \in {ImportsId, DocstringsId, NamingId} -> <<PyAnywhere>>
      [] rule_id = JSImportsId -> <<JsAnywhere, JsxAnywhere>>
      [] rule_id = TypesId -> <<TsAnywhere, TsxAnywhere>>

DefaultSeverity(rule_id) ==
    CASE rule_id = TypesId -> "error"
      [] OTHER -> "warning"

\* dict.get(key, default) on a mapping modelled as a function
DictGet(d, key, default) == IF key \in DOMAIN d THEN d[key] ELSE default

\* Rule.__init__: the instance of a rule class for its configuration.
NewRule(rule_id, rule_config) ==
    [id |-> rule_id,
     config |-> rule_config,
     severity |-> DefaultSeverity(rule_id),
     file_pattern_regexes |->
     [i \in 1..Len(FilePatterns(rule_id)) |->
        RuleGlobToRegex(FilePatterns(rule_id)[i])]]


\* LlamaLint._load_rules: the enabled rules, in registry order.
RECURSIVE LoadRulesFrom(_, _)
LoadRulesFrom(cfg, all_rules) ==
    IF all_rules = <<>> THEN <<>>
    ELSE LET rule_id == Head(all_rules)
             rule == NewRule(rule_id, DictGet(cfg.rule_configs, rule_id, <<>>))
             loaded == IF rule_id \in DOMAIN cfg.rule_severity
                       THEN [rule EXCEPT !.severity = cfg.rule_severity[rule_id]]
                       ELSE rule
         IN (IF rule_id \in cfg.disabled_rules THEN <<>> ELSE <<loaded>>)
            \o LoadRulesFrom(cfg, Tail(all_rules))

LoadRules(cfg) == LoadRulesFrom(cfg, BuiltinRules)

\* Rule.applies_to_file
AppliesToFile(rule, file_path_str) ==
    \E i \in 1..Len(rule.file_pattern_regexes) :
        RegexSearch(rule.file_pattern_regexes[i], file_path_str)

(***************************************************************************)
(* Paths and the directory tree                                            *)
(*                                                                         *)
(* A Path is the sequence of its segments below the root directory "/".    *)
(***************************************************************************)
SegA == <<"a", ".", "p", "y">>
SegB == <<"b", ".", "p", "y">>
SegT == <<"t">>
SegX == <<"x">>
SegZ == <<"z", "z">>

FileA == <<SegA>>
FileB == <<SegB>>
FileTB == <<SegT, SegB>>
FileTXA == <<SegT, SegX, SegA>>

\* The files of the tree, in the order in which a directory lists them.
AllFiles == <<FileA, FileB, FileTB, FileTXA>>
FileSet == {AllFiles[i] : i \in 1..Len(AllFiles)}

RootDir == <<>>
DirOfT == <<SegT>>
MissingDir == <<SegZ>>

\* "/".join(segments)
RECURSIVE JoinSegments(_)
JoinSegments(segs) ==
    IF segs = <<>> THEN <<>>
    ELSE IF Len(segs) = 1 THEN segs[1]
    ELSE segs[1] \o <<"/">> \o JoinSegments(Tail(segs))

\* str(path) of an absolute path
PathStr(path) == <<"/">> \o JoinSegments(path)

IsPrefix(dir, path) ==
    Len(dir) <= Len(path) /\ SubSeq(path, 1, Len(dir)) = dir

\* str(file_path.relative_to(directory))
RelPathStr(path, directory) ==
    JoinSegments(SubSeq(path, Len(directory) + 1, Len(path)))

\* directory.exists() and directory.is_dir()
IsDir(dir) == \E f \in FileSet : IsPrefix(dir, f) /\ Len(dir) < Len(f)

\* The entries one os.walk step lists in a directory.
FilesIn(dir) ==
    SelectSeq(AllFiles, LAMBDA f : Len(f) = Len(dir) + 1 /\ IsPrefix(dir, f))

RECURSIVE Dedup(_)
Dedup(s) ==
    IF s = <<>> THEN <<>>
    ELSE Bind(Dedup(SubSeq(s, 1, Len(s) - 1)), LAMBDA rest :
            IF \E i \in 1..Len(rest) : rest[i] = s[Len(s)] THEN rest
            ELSE Append(rest, s[Len(s)]))

DirsIn(dir) ==
    LET below == SelectSeq(AllFiles,
                    LAMBDA f : Len(f) > Len(dir) + 1 /\ IsPrefix(dir, f))
    IN Dedup([i \in 1..Len(below) |-> Append(dir, below[i][Len(dir) + 1])])

(***************************************************************************)
(* File selection                                                          *)
(***************************************************************************)
AnySearch(regexes, text) ==
    \E i \in 1..Len(regexes) : RegexSearch(regexes[i], text)

CompileAll(patterns) ==
    [i \in 1..Len(patterns) |-> FileUtilsGlobToRegex(patterns[i])]

\* is_ignored with the two tests in the other order, include deciding
\* first: the variant C4 rules out.
IsIgnoredIncludeFirst(file_path_str, include_patterns, exclude_patterns) ==
    LET include == IF include_patterns = <<>> THEN <<Anything>>
                   ELSE include_patterns
    IN Bind(CompileAll(include), LAMBDA include_regexes :
       Bind(CompileAll(exclude_patterns), LAMBDA exclude_regexes :
          IF AnySearch(include_regexes, file_path_str) THEN FALSE
          ELSE TRUE))

\* FileUtils.is_ignored
IsIgnored(file_path_str, include_patterns, exclude_patterns) ==
    LET include == IF include_patterns = <<>> THEN <<Anything>>
                   ELSE include_patterns
    IN Bind(CompileAll(include), LAMBDA include_regexes :
       Bind(CompileAll(exclude_patterns), LAMBDA exclude_regexes :
          IF AnySearch(exclude_regexes, file_path_str) THEN TRUE
          ELSE IF ~AnySearch(include_regexes, file_path_str) THEN TRUE
          ELSE FALSE))

\* The loop of FileUtils.find_files over os.walk(directory): the files of
\* root, then the directories of root that no exclude pattern matches.
RECURSIVE WalkTree(_, _, _, _)
WalkTree(root, directory, include_regexes, exclude_regexes) ==
    LET files == FilesIn(root)
        dirs == SelectSeq(DirsIn(root),
                    LAMBDA d : ~AnySearch(exclude_regexes, PathStr(d)))
        matching ==
            SelectSeq(files,
                LAMBDA f :
                    LET rel_path_str == RelPathStr(f, directory)
                    IN /\ AnySearch(include_regexes, rel_path_str)
                       /\ ~AnySearch(exclude_regexes, rel_path_str))
    IN matching
       \o ConcatMap(LAMBDA d : WalkTree(d, directory, include_regexes,
                                        exclude_regexes),
                    dirs)

\* FileUtils.find_files
FindFiles(directory, include_patterns, exclude_patterns) ==
    LET include == IF include_patterns = <<>> THEN <<Anything>>
                   ELSE include_patterns
    IN IF IsDir(directory)
       THEN Bind(CompileAll(include), LAMBDA include_regexes :
            Bind(CompileAll(exclude_patterns), LAMBDA exclude_regexes :
               WalkTree(directory, directory, include_regexes,
                        exclude_regexes)))
       ELSE <<>>

(***************************************************************************)
(* The lint engine                                                         *)
(***************************************************************************)
\* One step of a call, recorded in the order in which the code takes it:
\*   "ignored"  lint_file returned [] for an ignored path
\*   "read"     file_path.read_text(); raised tells whether it failed
\*   "check"    rule.check(file_path, content) of the given pass (1: first
\*              pass, 2: the re-run after fixes) with what it returned
\*   "write"    file_path.write_text(content)
Event(ev, path, pass, rule_id, content, raised, results) ==
    [ev |-> ev, path |-> path, pass |-> pass, rule |-> rule_id,
     content |-> content, raised |-> raised, results |-> results]

\* The result lint_file appends when a rule's check raises.
RuleExecutionError(rule, file_path_str) ==
    RuleResult(rule.id, file_path_str, 0, 0, <<"Rule execution error">>,
               "error")

\* The read failure reported as a warning: the variant C6 rules out.
FileErrorAsWarning(file_path_str) ==
    RuleResult("file-error", file_path_str, 0, 0, <<"Error reading file">>,
               "warning")

\* The result lint_file returns when the file cannot be read.
FileError(file_path_str) ==
    RuleResult("file-error", file_path_str, 0, 0, <<"Error reading file">>,
               "error")

\* The result lint_directory returns for a missing directory.
DirectoryError(directory_str) ==
    RuleResult("directory-error", directory_str, 0, 0,
               <<"Directory not found">>, "error")

\* The first loop with each rule's results put in front of the results
\* gathered so far.
RECURSIVE FirstPassPrepending(_, _, _, _)
FirstPassPrepending(applicable_rules, path, file_path_str, content) ==
    IF applicable_rules = <<>> THEN [results |-> <<>>, log |-> <<>>]
    ELSE Bind(Head(applicable_rules), LAMBDA rule :
         Bind(RuleCheck(rule, file_path_str, content), LAMBDA out :
         Bind(FirstPassPrepending(Tail(applicable_rules), path,
                                  file_path_str, content),
              LAMBDA rest :
            [results |->
                rest.results
                \o (IF out.raised
                    THEN <<RuleExecutionError(rule, file_path_str)>>
                    ELSE out.results),
             log |-> <<Event("check", path, 1, rule.id, content, out.raised,
                             out.results)>> \o rest.log])))

\* The first loop over applicable_rules: results are extended by what each
\* check returns, or by one error result when it raises.
RECURSIVE FirstPass(_, _, _, _)
FirstPass(applicable_rules, path, file_path_str, content) ==
    IF applicable_rules = <<>> THEN [results |-> <<>>, log |-> <<>>]
    ELSE Bind(Head(applicable_rules), LAMBDA rule :
         Bind(RuleCheck(rule, file_path_str, content), LAMBDA out :
         Bind(FirstPass(Tail(applicable_rules), path, file_path_str, content),
              LAMBDA rest :
            [results |->
                (IF out.raised THEN <<RuleExecutionError(rule, file_path_str)>>
                 ELSE out.results) \o rest.results,
             log |-> <<Event("check", path, 1, rule.id, content, out.raised,
                             out.results)>> \o rest.log])))

\* The loop that re-runs the rules after the fixes: a check that raises is
\* passed over.
RECURSIVE SecondPass(_, _, _, _)
\* The re-run with "remaining_results = rule_results" for "extend": only
\* the results of the last rule are kept.  The variant C7 rules out.
SecondPassKeepsLast(applicable_rules, path, file_path_str, content) ==
    IF applicable_rules = <<>> THEN [results |-> <<>>, log |-> <<>>]
    ELSE Bind(Head(applicable_rules), LAMBDA rule :
         Bind(RuleCheck(rule, file_path_str, content), LAMBDA out :
         Bind(SecondPass(Tail(applicable_rules), path, file_path_str, content),
              LAMBDA rest :
            [results |->
                IF Len(applicable_rules) > 1 THEN rest.results
                ELSE IF out.raised THEN <<>> ELSE out.results,
             log |-> <<Event("check", path, 2, rule.id, content, out.raised,
                             out.results)>> \o rest.log])))

SecondPass(applicable_rules, path, file_path_str, content) ==
    IF applicable_rules = <<>> THEN [results |-> <<>>, log |-> <<>>]
    ELSE Bind(Head(applicable_rules), LAMBDA rule :
         Bind(RuleCheck(rule, file_path_str, content), LAMBDA out :
         Bind(SecondPass(Tail(applicable_rules), path, file_path_str, content),
              LAMBDA rest :
            [results |->
                (IF out.raised THEN <<>> ELSE out.results) \o rest.results,
             log |-> <<Event("check", path, 2, rule.id, content, out.raised,
                             out.results)>> \o rest.log])))

\* LlamaLint.lint_file on the files `files` (path -> [readable, data]):
\* the returned results, the files afterwards and the steps taken.
LintFileRun(cfg, loaded, files, path, fix) ==
    LET file_path_str == PathStr(path)
        readEv(failed, content) ==
            Event("read", path, 0, "", content, failed, <<>>)
    IN IF IsIgnored(file_path_str, cfg.include, cfg.exclude)
       THEN [results |-> <<>>, files |-> files,
             log |-> <<Event("ignored", path, 0, "", <<>>, FALSE, <<>>)>>]
       ELSE IF ~files[path].readable
       THEN [results |-> <<FileError(file_path_str)>>, files |-> files,
             log |-> <<readEv(TRUE, <<>>)>>]
       ELSE
       Bind(ReadText(files[path].data), LAMBDA content :
       Bind(SelectSeq(loaded,
                      LAMBDA rule : AppliesToFile(rule, file_path_str)),
            LAMBDA applicable_rules :
       Bind(FirstPass(applicable_rules, path, file_path_str, content),
            LAMBDA first :
          IF fix /\ first.results # <<>>
          THEN Bind(ApplyFixes(content, first.results), LAMBDA fixed :
               Bind(SecondPass(applicable_rules, path, file_path_str, fixed),
                    LAMBDA second :
                  [results |-> second.results,
                   files |-> [files EXCEPT ![path].data = WriteText(fixed)],
                   log |-> <<readEv(FALSE, content)>> \o first.log
                           \o <<Event("write", path, 0, "", fixed, FALSE,
                                      <<>>)>>
                           \o second.log]))
          ELSE [results |-> first.results, files |-> files,
                log |-> <<readEv(FALSE, content)>> \o first.log])))

\* The loop of lint_directory over all_files.
RECURSIVE LintEach(_, _, _, _, _)
LintEach(cfg, loaded, files, all_files, fix) ==
    IF all_files = <<>>
    THEN [results |-> <<>>, files |-> files, log |-> <<>>]
    ELSE Bind(LintFileRun(cfg, loaded, files, Head(all_files), fix),
              LAMBDA one :
         Bind(LintEach(cfg, loaded, one.files, Tail(all_files), fix),
              LAMBDA rest :
            [results |-> one.results \o rest.results,
             files |-> rest.files,
             log |-> one.log \o rest.log]))

\* LlamaLint.lint_directory
LintDirectoryRun(cfg, loaded, files, directory, fix) ==
    IF ~IsDir(directory)
    THEN [results |-> <<DirectoryError(PathStr(directory))>>,
          files |-> files, log |-> <<>>]
    ELSE Bind(FindFiles(directory, cfg.include, cfg.exclude),
              LAMBDA all_files : LintEach(cfg, loaded, files, all_files, fix))

(***************************************************************************)
(* State                                                                   *)
(***************************************************************************)
VARIABLES
    \* a LlamaLint object and the files it works on
    self_config,      \* self.config
    self_rules,       \* self._rules, the loaded rules in registry order
    disk,             \* path -> [readable, data]: the files on disk
    before,           \* disk as it was when the last call began
    call,             \* the last call: [op, target, fix]
    returned,         \* the list the last call returned
    log,              \* the steps the last call took, in order
    calls,            \* number of calls made
    \* one glob pattern tried on one path
    glob_pattern,
    glob_path,
    rule_match,       \* outcome with Rule._glob_to_regex
    utils_match,      \* outcome with FileUtils._glob_to_regex
    \* one use of _apply_fixes
    fix_content,
    fix_results,
    fix_shuffled,     \* fix_results in another order
    fix_output,       \* Optional: _apply_fixes(fix_content, fix_results)
    shuffled_output,  \* Optional: _apply_fixes(fix_content, fix_shuffled)
    \* one rule run on one content, its fixes applied, and run again
    check_rule,       \* the rule instance
    check_content,
    check_out,        \* Optional: what rule.check gave for check_content
    fixed_content,    \* Optional: _apply_fixes(check_content, results)
    recheck_out,      \* Optional: what rule.check gave for fixed_content
    \* the rule registry of llamalint.rules and a caller holding a list of it
    lists,            \* the list objects: "_RULES" and the caller's copy
    returned_ref,     \* which list object the caller got from get_all_rules
    registered,       \* the arguments of the register_rule calls, in order
    registry_calls,   \* number of steps taken
    \* a Config being prepared, the LlamaLint made from it, and a call on it
    setup_config,     \* the Config object
    setup_linter,     \* Optional: what LlamaLint(setup_config) gave
    setup_out,        \* Optional: how the last lint call on it ended
    setup_calls       \* number of setter calls made on the Config

lint_vars == <<self_config, self_rules, disk, before, call, returned, log,
               calls>>
glob_vars == <<glob_pattern, glob_path, rule_match, utils_match>>
fix_vars == <<fix_content, fix_results, fix_shuffled, fix_output,
              shuffled_output>>
rule_vars == <<check_rule, check_content, check_out, fixed_content,
               recheck_out>>
registry_vars == <<lists, returned_ref, registered, registry_calls>>
setup_vars == <<setup_config, setup_linter, setup_out, setup_calls>>
vars == <<lint_vars, glob_vars, fix_vars, rule_vars, registry_vars,
         setup_vars>>

NoCall == [op |-> "none", target |-> <<>>, fix |-> FALSE]

\* No LlamaLint object in use.
LintIdle ==
    /\ self_config = DefaultConfig
    /\ self_rules = <<>>
    /\ disk = <<>>
    /\ before = <<>>
    /\ call = NoCall
    /\ returned = <<>>
    /\ log = <<>>
    /\ calls = 0

GlobIdle ==
    /\ glob_pattern = <<>>
    /\ glob_path = <<>>
    /\ rule_match = "pending"
    /\ utils_match = "pending"

FixIdle ==
    /\ fix_content = <<>>
    /\ fix_results = <<>>
    /\ fix_shuffled = <<>>
    /\ fix_output = None
    /\ shuffled_output = None

RuleIdle ==
    /\ check_rule = <<>>
    /\ check_content = <<>>
    /\ check_out = None
    /\ fixed_content = None
    /\ recheck_out = None

RegistryIdle ==
    /\ lists = <<>>
    /\ returned_ref = "none"
    /\ registered = <<>>
    /\ registry_calls = 0

SetupIdle ==
    /\ setup_config = DefaultConfig
    /\ setup_linter = None
    /\ setup_out = None
    /\ setup_calls = 0

(***************************************************************************)
(* Linting files and directories                                           *)
(***************************************************************************)
\* The files written by tests/test_integration.py
DocstringsTestContent ==
    <<"\n", DefAdd, "\n", ReturnAB, "\n", "\n", ClassUser, "\n", DefInit,
      "\n", SelfName, "\n">>
ImportsTestContent ==
    <<"\n", ImportSysOs, "\n", FromMathStar, "\n", "\n", DefTest, "\n",
      ReturnJoin, "\n">>
\* A relative import after a plain import: ImportsRule.check raises.
RelativeImportContent == <<ImportA, "\n", FromDotImportB, "\n">>
\* Results, none of which carries a fix.
WildcardContent == <<OneLineDoc, "\n", FromMathStar, "\n">>
\* An import line to split, followed by a statement.
MultiImportContent == <<OneLineDoc, "\n", ImportSysOs, "\n", AssignX, "\n">>
CleanContent == <<OneLineDoc, "\n", AssignX, "\n">>
\* The same two contents stored with "\r\n" terminators.
CleanContentCRLF == <<OneLineDoc, "\r", "\n", AssignX, "\r", "\n">>
WildcardContentCRLF == <<OneLineDoc, "\r", "\n", FromMathStar, "\r", "\n">>

\* A file that does not parse (unexpected indent), with either terminator.
BrokenContent == <<ReturnX, "\n">>
BrokenContentCRLF == <<ReturnX, "\r", "\n">>

Contents(path) ==
    CASE path = FileA ->
            {DocstringsTestContent, ImportsTestContent, RelativeImportContent,
             WildcardContent, MultiImportContent, CleanContent, <<>>,
             BrokenContent}
      [] path = FileB ->
            {ImportsTestContent, CleanContentCRLF, WildcardContentCRLF,
             BrokenContentCRLF}
      [] path = FileTB -> {CleanContent}
      [] path = FileTXA -> {DocstringsTestContent, ImportsTestContent}

\* The directory trees a run starts with: at most one file is unreadable.
Disks ==
    {d \in [FileSet -> [readable : BOOLEAN,
                        data : UNION {Contents(p) : p \in FileSet}]] :
        /\ \A p \in FileSet : d[p].data \in Contents(p)
        /\ Cardinality({p \in FileSet : ~d[p].readable}) <= 1
        /\ \A p \in FileSet : ~d[p].readable => p \in {FileA, FileB}}

\* LlamaLint(config): __init__ stores the configuration and loads the rules.
Init ==
    /\ self_config \in Configs
    /\ self_rules = LoadRules(self_config)
    /\ disk \in Disks
    /\ before = disk
    /\ call = NoCall
    /\ returned = <<>>
    /\ log = <<>>
    /\ calls = 0
    /\ GlobIdle
    /\ FixIdle
    /\ RuleIdle
    /\ RegistryIdle
    /\ SetupIdle

\* linter.lint_file(path, fix)
LintFile(path, fix) ==
    /\ calls < MaxCalls
    /\ \E run \in {LintFileRun(self_config, self_rules, disk, path, fix)} :
          /\ disk' = run.files
          /\ returned' = run.results
          /\ log' = run.log
    /\ before' = disk
    /\ call' = [op |-> "lint_file", target |-> path, fix |-> fix]
    /\ calls' = calls + 1
    /\ UNCHANGED <<self_config, self_rules, glob_vars, fix_vars, rule_vars,
                   registry_vars,
                   setup_vars>>

\* linter.lint_directory(directory, fix)
LintDirectory(directory, fix) ==
    /\ calls < MaxCalls
    /\ \E run \in {LintDirectoryRun(self_config, self_rules, disk,
                                     directory, fix)} :
          /\ disk' = run.files
          /\ returned' = run.results
          /\ log' = run.log
    /\ before' = disk
    /\ call' = [op |-> "lint_directory", target |-> directory, fix |-> fix]
    /\ calls' = calls + 1
    /\ UNCHANGED <<self_config, self_rules, glob_vars, fix_vars, rule_vars,
                   registry_vars,
                   setup_vars>>

Next ==
    \/ \E path \in FileSet, fix \in BOOLEAN : LintFile(path, fix)
    \/ \E directory \in {RootDir, DirOfT, MissingDir}, fix \in BOOLEAN :
           LintDirectory(directory, fix)

Spec == Init /\ [][Next]_vars

(***************************************************************************)
(* Matching one glob pattern against one path                              *)
(***************************************************************************)
PatternChars == {"*", "?", ".", "/", "a", "+"}
PathChars == {"a", ".", "/"}

\* Patterns whose translation means the same to every supported Python:
\* "*+" and "++" are possessive quantifiers from Python 3.11 on and an error
\* before.
Portable(p) ==
    \A i \in 2..Len(p) : p[i] = "+" => p[i - 1] \notin {"*", "+"}

\* The segments of a path string between its separators.
RECURSIVE Segments(_)
Segments(s) ==
    IF \A i \in 1..Len(s) : s[i] # "/" THEN <<s>>
    ELSE LET k == CHOOSE i \in 1..Len(s) :
                     s[i] = "/" /\ \A m \in 1..(i - 1) : s[m] # "/"
         IN <<SubSeq(s, 1, k - 1)>> \o Segments(SubSeq(s, k + 1, Len(s)))

\* str(Path(s)) = s: what applies_to_file and is_ignored search is the text
\* of a Path, which has no empty segment, no "." segment and no trailing
\* separator.
IsPathText(s) ==
    \/ s = <<"/">>
    \/ s = <<".">>
    \/ /\ s # <<>>
       /\ LET segs == Segments(s)
              named == IF s[1] = "/" THEN Tail(segs) ELSE segs
          IN \A i \in 1..Len(named) : named[i] \notin {<<>>, <<".">>}

ExamplePatterns ==
    {PyAnywhere, PyHere, <<"a", "?", ".", "p", "y">>, InDist, Anything}

ExamplePaths ==
    {<<"a", ".", "p", "y">>, <<"b", ".", "p", "y">>,
     <<"a", "/", "b", ".", "p", "y">>, PathStr(FileA), PathStr(FileTXA),
     <<".", "/", "a", ".", "p", "y">>,
     <<"b", "x", "p", "y">>, <<"b", ".", "p", "y", "c">>,
     <<"a", "b", ".", "p", "y">>, <<"a", "/", ".", "p", "y">>,
     <<"d", "i", "s", "t", "/", "a">>, <<"/", "d", "i", "s", "t", "/", "a">>}

GlobPatterns ==
    ExamplePatterns
    \cup {p \in SeqsUpTo(PatternChars, MaxPatLen) : Portable(p)}

GlobPaths ==
    ExamplePaths \cup {s \in SeqsUpTo(PathChars, MaxPathLen) : IsPathText(s)}

GlobInit ==
    /\ glob_pattern \in GlobPatterns
    /\ glob_path \in GlobPaths
    /\ rule_match = "pending"
    /\ utils_match = "pending"
    /\ LintIdle
    /\ FixIdle
    /\ RuleIdle
    /\ RegistryIdle
    /\ SetupIdle

\* re.compile(regex).search(text): "re.error" when the expression does not
\* compile.
SearchOutcome(regex, text) ==
    IF ~RegexCompiles(regex) THEN "re.error"
    ELSE IF RegexSearch(regex, text) THEN "match"
    ELSE "no match"

\* Rule(file_patterns=[glob_pattern]).applies_to_file(glob_path)
RuleMatch ==
    /\ rule_match = "pending"
    /\ rule_match' = SearchOutcome(RuleGlobToRegex(glob_pattern), glob_path)
    /\ UNCHANGED <<glob_pattern, glob_path, utils_match, lint_vars, fix_vars,
                   rule_vars, registry_vars,
                   setup_vars>>

\* FileUtils._glob_to_regex(glob_pattern).search(glob_path), as is_ignored
\* and find_files do for each pattern.
UtilsMatch ==
    /\ utils_match = "pending"
    /\ utils_match' = SearchOutcome(FileUtilsGlobToRegex(glob_pattern),
                                    glob_path)
    /\ UNCHANGED <<glob_pattern, glob_path, rule_match, lint_vars, fix_vars,
                   rule_vars, registry_vars,
                   setup_vars>>

GlobNext == RuleMatch \/ UtilsMatch

GlobSpec == GlobInit /\ [][GlobNext]_vars

(***************************************************************************)
(* Applying fixes to a content                                             *)
(***************************************************************************)
ContentChars == {"a", "\n", "\r"}

FixTarget(line, column) ==
    RuleResult("r", <<"f">>, line, column, <<"m">>, "warning")

\* The results _apply_fixes is given: fixes that replace a line or a range,
\* with and without a terminator in the fix text, and a result without fix.
FixResults ==
    {WithFix(FixTarget(1, 0), <<"b">>, "replace_line", None),
     WithFix(FixTarget(1, 0), <<"c", "\n", "c", "\n">>, "replace_line", None),
     WithFix(FixTarget(2, 0), <<"d", "\n">>, "replace_line", None),
     WithFix(FixTarget(2, 1), <<"e">>, "replace_range", Some(<<0, 1>>)),
     WithFix(FixTarget(3, 0), <<"g">>, "replace_range", Some(<<1, 1>>)),
     WithFix(FixTarget(0, 0), <<"z">>, "replace_line", None),
     FixTarget(1, 0)}

Bijections(n) ==
    {p \in [1..n -> 1..n] : \A i, j \in 1..n : p[i] = p[j] => i = j}

Reorderings(s) ==
    {[i \in 1..Len(s) |-> s[p[i]]] : p \in Bijections(Len(s))}

FixInit ==
    /\ \/ /\ fix_content \in SeqsUpTo(ContentChars, MaxContentLen)
          /\ fix_results \in SeqsUpTo(FixResults, MaxFixes)
       \/ /\ fix_content = MultiImportContent
          /\ fix_results =
                ImportsCheck(NewRule(ImportsId, <<>>), PathStr(FileA),
                             MultiImportContent).results
    /\ fix_shuffled \in Reorderings(fix_results)
    /\ fix_output = None
    /\ shuffled_output = None
    /\ LintIdle
    /\ GlobIdle
    /\ RuleIdle
    /\ RegistryIdle
    /\ SetupIdle

\* self._apply_fixes(file_path, fix_content, fix_results)
ApplyGiven ==
    /\ fix_output = None
    /\ fix_output' = Some(ApplyFixes(fix_content, fix_results))
    /\ UNCHANGED <<fix_content, fix_results, fix_shuffled, shuffled_output,
                   lint_vars, glob_vars, rule_vars, registry_vars,
                   setup_vars>>

\* self._apply_fixes(file_path, fix_content, fix_shuffled)
ApplyShuffled ==
    /\ shuffled_output = None
    /\ shuffled_output' = Some(ApplyFixes(fix_content, fix_shuffled))
    /\ UNCHANGED <<fix_content, fix_results, fix_shuffled, fix_output,
                   lint_vars, glob_vars, rule_vars, registry_vars,
                   setup_vars>>

FixNext == ApplyGiven \/ ApplyShuffled

FixSpec == FixInit /\ [][FixNext]_vars

(***************************************************************************)
(* One rule on one content: check, apply its fixes, check again            *)
(***************************************************************************)
\* The file made of the given lines, each ended by "\n".
RECURSIVE FileOf(_)
FileOf(lines) ==
    IF lines = <<>> THEN <<>>
    ELSE <<Head(lines), "\n">> \o FileOf(Tail(lines))

ImportsLines ==
    {ImportSys, ImportOs, ImportSysOs, ImportOsAsO, FromMathStar,
     FromOsImportPath, FromOsPathImportJoin, UseOs, UseO}

DocstringsLines ==
    {OneLineDoc, AssignX, DefF, DefAdd, DefG, DefPrivate, ReturnX, ReturnAB,
     ClassUser, DefInit, SelfName}

ImportsContents ==
    {FileOf(ls) : ls \in SeqsUpTo(ImportsLines, MaxLines)}
    \cup {ImportsTestContent, RelativeImportContent, MultiImportContent,
          FileOf(<<FromFutureImport, ImportOs, UseOs>>),
          FileOf(<<ImportOs, FromFutureImport, UseOs>>),
          FileOf(<<DefTest, ReturnJoin, ImportOs, ImportA>>),
          FileOf(<<ImportSys, AssignX, ImportOs>>),
          FileOf(<<ImportSysOsAsO, UseO>>),
          FileOf(<<DefTest, ImportSysOs4, ReturnJoin>>)}

DocstringsContents ==
    {FileOf(ls) : ls \in SeqsUpTo(DocstringsLines, MaxLines)}
    \cup {DocstringsTestContent, <<AssignX>>, <<DefF, "\n", ReturnX>>,
          FileOf(<<OneLineDoc, ClassUser, DefInit, SelfName>>),
          FileOf(<<OneLineDoc, DefF, OneLineDoc, ReturnX>>)}

\* Files whose functions and classes have docstrings.
DocumentedContents ==
    {FileOf(<<OneLineDoc, DefF, OneLineDoc4, ReturnX>>),
     FileOf(<<OneLineDoc, DefF, FnDocOpen, Blank4, ArgsLine, ParamX, Blank4,
              ReturnsLine, ValueLine, Blank4, DocClose4, ReturnX>>),
     FileOf(<<OneLineDoc, DefAdd, FnDocOpen, Blank4, ArgsLine, ParamA,
              ParamB, Blank4, DocClose4, ReturnAB>>),
     FileOf(<<OneLineDoc, DefF, SphinxDoc4, ReturnX>>),
     FileOf(<<OneLineDoc, DefF, YieldsDoc4, ReturnX>>),
     FileOf(<<OneLineDoc, DefPrivate, OneLineDoc4, ReturnX>>),
     FileOf(<<OneLineDoc, ClassUser, ClassDocOpen, Blank4, ClassDocText,
              DocClose4, DefInit, SelfName>>),
     FileOf(<<OneLineDoc, ClassUser, ClassDocOpen, Blank4, AttributesLine,
              DocClose4, DefInit, SelfName>>),
     FileOf(<<DefF, OneLineDoc4, ReturnX, DefAdd, OneLineDoc4, ReturnAB>>),
     FileOf(<<DefF, OneLineDoc4, ReturnX, DefAdd, ReturnAB>>)}

\* The per-rule configurations DocstringsRule is instantiated with.
DocstringsRuleConfigs ==
    {<<>>, [style |-> "sphinx"], [style |-> "numpy"], [style |-> "any"],
     [required_methods |-> FALSE], [ignore_private |-> FALSE]}

\* The per-rule configurations ImportsRule is instantiated with.
ImportsRuleConfigs ==
    {<<>>, [check_order |-> FALSE], [allow_unused_imports |-> TRUE]}

RuleInit ==
    /\ \/ /\ check_rule \in {NewRule(ImportsId, c) : c \in ImportsRuleConfigs}
          /\ check_content \in ImportsContents
       \/ /\ check_rule = NewRule(DocstringsId, <<>>)
          /\ check_content \in DocstringsContents
       \/ /\ check_rule \in {NewRule(DocstringsId, c) :
                                c \in DocstringsRuleConfigs}
          /\ check_content \in DocumentedContents
    /\ check_out = None
    /\ fixed_content = None
    /\ recheck_out = None
    /\ LintIdle
    /\ GlobIdle
    /\ FixIdle
    /\ RegistryIdle
    /\ SetupIdle

\* rule.check(file_path, content)
CheckContent ==
    /\ check_out = None
    /\ check_out' = Some(RuleCheck(check_rule, PathStr(FileA), check_content))
    /\ UNCHANGED <<check_rule, check_content, fixed_content, recheck_out,
                   lint_vars, glob_vars, fix_vars, registry_vars,
                   setup_vars>>

\* self._apply_fixes(file_path, content, results) on the results of the check
FixContent ==
    /\ check_out # None
    /\ ~check_out[1].raised
    /\ fixed_content = None
    /\ fixed_content' = Some(ApplyFixes(check_content, check_out[1].results))
    /\ UNCHANGED <<check_rule, check_content, check_out, recheck_out,
                   lint_vars, glob_vars, fix_vars, registry_vars,
                   setup_vars>>

\* rule.check(file_path, content) on the fixed content
RecheckContent ==
    /\ fixed_content # None
    /\ recheck_out = None
    /\ recheck_out' = Some(RuleCheck(check_rule, PathStr(FileA),
                                     fixed_content[1]))
    /\ UNCHANGED <<check_rule, check_content, check_out, fixed_content,
                   lint_vars, glob_vars, fix_vars, registry_vars,
                   setup_vars>>

RuleNext == CheckContent \/ FixContent \/ RecheckContent

RuleSpec == RuleInit /\ [][RuleNext]_vars

(***************************************************************************)
(* Properties                                                              *)
(***************************************************************************)
IsLintFile == call.op = "lint_file"
IsLintDirectory == call.op = "lint_directory"

Checks(pass) ==
    {i \in 1..Len(log) : log[i].ev = "check" /\ log[i].pass = pass}
Writes == {i \in 1..Len(log) : log[i].ev = "write"}

\* The results of the checks of one pass that returned, in order.
RECURSIVE PassResults(_, _)
PassResults(events, pass) ==
    IF events = <<>> THEN <<>>
    ELSE (IF Head(events).ev = "check" /\ Head(events).pass = pass
             /\ ~Head(events).raised
          THEN Head(events).results ELSE <<>>)
         \o PassResults(Tail(events), pass)

\* What the first pass leaves in results: a check that raised leaves its
\* error result.
RECURSIVE FirstPassResults(_)
FirstPassResults(events) ==
    IF events = <<>> THEN <<>>
    ELSE (IF Head(events).ev = "check" /\ Head(events).pass = 1
          THEN IF Head(events).raised
               THEN <<RuleExecutionError([id |-> Head(events).rule],
                                         PathStr(Head(events).path))>>
               ELSE Head(events).results
          ELSE <<>>)
         \o FirstPassResults(Tail(events))

HasRule(results, rule_id) ==
    \E i \in 1..Len(results) : results[i].rule_id = rule_id

Excluded(text) == AnySearch(CompileAll(self_config.exclude), text)
Included(text) == AnySearch(CompileAll(self_config.include), text)

\* C1: with the default Config, lint_file on a Python file several
\* directories below the root (the file a test writes under a temporary
\* directory) is linted: the docstrings test file yields a python-docstrings
\* result and the imports test file yields a python-imports result.
C1_TempFileIsLinted ==
    (IsLintFile /\ self_config = DefaultConfig /\ call.target = FileTXA)
    => /\ before[FileTXA].data = DocstringsTestContent
          => HasRule(returned, DocstringsId)
       /\ before[FileTXA].data = ImportsTestContent
          => HasRule(returned, ImportsId)

EndsWithPy(text) ==
    /\ Len(text) >= 3
    /\ SubSeq(text, Len(text) - 2, Len(text)) = <<".", "p", "y">>

\* C2: "**" matches any characters including "/": the pattern "**/*.py"
\* matches every path that ends in ".py", at any depth, with the matcher
\* of Rule and with the matcher of FileUtils.
C2_DoubleStarMatchesAnyDepth ==
    (glob_pattern = PyAnywhere /\ EndsWithPy(glob_path))
    => /\ rule_match \in {"pending", "match"}
       /\ utils_match \in {"pending", "match"}

\* The glob semantics of the claim: "**" matches any characters, "*" any
\* run of characters other than "/", "?" one character other than "/", and
\* every other character itself; the whole path is matched.
RECURSIVE GlobAccepts(_, _, _, _)
GlobAccepts(p, i, s, j) ==
    IF i > Len(p) THEN j > Len(s)
    ELSE IF p[i] = "*" /\ i < Len(p) /\ p[i + 1] = "*"
    THEN \E k \in j..(Len(s) + 1) : GlobAccepts(p, i + 2, s, k)
    ELSE IF p[i] = "*"
    THEN \E k \in j..(Len(s) + 1) :
            /\ \A m \in j..(k - 1) : s[m] # "/"
            /\ GlobAccepts(p, i + 1, s, k)
    ELSE IF p[i] = "?"
    THEN j <= Len(s) /\ s[j] # "/" /\ GlobAccepts(p, i + 1, s, j + 1)
    ELSE j <= Len(s) /\ s[j] = p[i] /\ GlobAccepts(p, i + 1, s, j + 1)

HasDoubleStar(p) == \E i \in 1..(Len(p) - 1) : p[i] = "*" /\ p[i + 1] = "*"

GlobOutcome(p, s) == IF GlobAccepts(p, 1, s, 1) THEN "match" ELSE "no match"

\* C3: for a pattern without "**", the compiled matchers decide exactly the
\* glob semantics: "*" is a run of non-separators, "?" one non-separator,
\* any other character matches only itself, and the whole path is matched.
C3_SingleStarQuestionLiteral ==
    ~HasDoubleStar(glob_pattern)
    => /\ rule_match \in {"pending", GlobOutcome(glob_pattern, glob_path)}
       /\ utils_match \in {"pending", GlobOutcome(glob_pattern, glob_path)}

\* The files lint_directory handed to lint_file: those find_files returned.
Found == {log[i].path : i \in 1..Len(log)}

HasIssues(data) == data \notin {CleanContent, CleanContentCRLF, <<>>}

IsRuleError(r, rule_id) ==
    /\ r.rule_id = rule_id
    /\ r.severity = "error"
    /\ r.message = <<"Rule execution error">>

\* C5: rule isolation in lint_file, with and without fix: every applicable
\* rule whose check raised has exactly one rule-execution-error result in
\* the returned list, and the results the other rules gave (in the pass
\* whose results are returned) are all in the returned list.
C5_RuleErrorsAreReported ==
    IsLintFile
    => /\ \A c \in Checks(1) :
             log[c].raised
             => Cardinality({i \in 1..Len(returned) :
                                IsRuleError(returned[i], log[c].rule)}) = 1
       /\ LET last == IF Checks(2) # {} THEN 2 ELSE 1
          IN \A c \in Checks(last) :
                \A k \in 1..Len(log[c].results) :
                   \E i \in 1..Len(returned) : returned[i] = log[c].results[k]

Reported(path) ==
    SelectSeq(returned, LAMBDA r : r.file_path = PathStr(path))

Unreadable(path) ==
    /\ ~before[path].readable
    /\ ~IsIgnored(PathStr(path), self_config.include, self_config.exclude)

\* C6: an unreadable file that is not ignored makes lint_file return
\* exactly one result, of severity error, at line 0 and without fix, with
\* no rule run and nothing written; lint_directory reports that one result
\* for the file and still lints every other file find_files returned,
\* returning for each what lint_file returns for it.
C6_UnreadableFile ==
    /\ (IsLintFile /\ Unreadable(call.target))
       => /\ Len(returned) = 1
          /\ returned[1].severity = "error"
          /\ returned[1].line = 0
          /\ returned[1].fix = None
          /\ Checks(1) = {} /\ Checks(2) = {} /\ Writes = {}
          /\ disk = before
    /\ (IsLintDirectory /\ \E p \in Found : Unreadable(p))
       => LET all_files == FindFiles(call.target, self_config.include,
                                     self_config.exclude)
          IN \A k \in 1..Len(all_files) :
                /\ all_files[k] \in Found
                /\ Unreadable(all_files[k])
                   => /\ Len(Reported(all_files[k])) = 1
                      /\ Reported(all_files[k])[1].severity = "error"
                      /\ Reported(all_files[k])[1].line = 0
                      /\ Reported(all_files[k])[1].fix = None
                      /\ \A i \in 1..Len(log) :
                            log[i].path = all_files[k] => log[i].ev = "read"
                /\ ~Unreadable(all_files[k])
                   => Reported(all_files[k])
                      = LintFileRun(self_config, self_rules, before,
                                    all_files[k], call.fix).results

\* A directory run that meets an unreadable file first and returns the
\* results of a later file as well.
C6_Witness ==
    /\ IsLintDirectory
    /\ Len(returned) > 1
    /\ returned[1].rule_id = "file-error"
    /\ \E i \in 2..Len(returned) : returned[i].rule_id = ImportsId

\* C7: one lint_file(fix=True) call checks, fixes and re-checks, each at
\* most once: a rule is checked at most once per pass and in no third
\* pass, the file is written at most once, after every check of the first
\* pass and before every check of the second, the second pass checks the
\* content that was written, its results are what is returned, and the
\* file keeps the written content: no fix of the second pass is applied.
C7_FixLifecycle ==
    (IsLintFile /\ call.fix)
    => /\ \A i \in 1..Len(log) :
             log[i].ev = "check" => log[i].pass \in {1, 2}
       /\ \A i, j \in Checks(1) \cup Checks(2) :
             (log[i].rule = log[j].rule /\ log[i].pass = log[j].pass)
             => i = j
       /\ Cardinality(Writes) <= 1
       /\ \A w \in Writes :
             /\ \A c \in Checks(1) : c < w
             /\ \A c \in Checks(2) : w < c /\ log[c].content = log[w].content
             /\ returned = PassResults(log, 2)
             /\ disk = [before EXCEPT ![call.target].data = log[w].content]
       /\ Checks(2) # {} => Writes # {}
       /\ Writes = {} => disk = before

\* A fixing call that changed the file and returned what its second pass
\* found, which is not what the first pass found.
C7_Witness ==
    /\ IsLintFile /\ call.fix
    /\ Writes # {}
    /\ disk # before
    /\ Checks(2) # {}
    /\ returned # <<>>
    /\ returned # FirstPassResults(log)

\* C8: lint_file writes the file only when fix is requested and a result
\* of the first pass carries a fix; otherwise the file is not written, no
\* second pass runs and the results of the first pass are returned.
C8_WriteOnlyWithFix ==
    IsLintFile
    => LET first == FirstPassResults(log)
           fixing == call.fix
                     /\ \E i \in 1..Len(first) : first[i].fix # None
       IN /\ Writes # {} => fixing
          /\ ~fixing
             => /\ Checks(2) = {}
                /\ disk = before
                /\ Checks(1) # {} => returned = first

FixCarrying(results) == {i \in 1..Len(results) : results[i].fix # None}

DistinctTargetLines(results) ==
    \A i, j \in FixCarrying(results) :
        results[i].line = results[j].line => i = j

\* C9: for results whose fixes target pairwise different lines,
\* _apply_fixes gives the same content for every order in which the
\* results are supplied.
C9_FixOrderIndependent ==
    (fix_output # None /\ shuffled_output # None
     /\ DistinctTargetLines(fix_results))
    => fix_output = shuffled_output

\* Two fixes on different lines, supplied in both orders, both applied.
C9_Witness ==
    /\ fix_output # None /\ shuffled_output # None
    /\ DistinctTargetLines(fix_results)
    /\ Cardinality(FixCarrying(fix_results)) = 2
    /\ fix_shuffled # fix_results
    /\ \A i \in 1..Len(fix_results) :
          fix_results[i].line <= Len(SplitLinesKeep(fix_content))
    /\ fix_output[1] # fix_content

\* The terminator a line ends with: <<>>, "\n", "\r" or "\r\n".
Terminator(line) ==
    IF line = <<>> \/ ~IsTerminator(line[Len(line)]) THEN <<>>
    ELSE IF Len(line) >= 2 /\ line[Len(line) - 1] = "\r"
            /\ line[Len(line)] = "\n"
    THEN <<"\r", "\n">>
    ELSE <<line[Len(line)]>>

\* The lines a fix of the results is applied to.
Targeted(results, n) ==
    {results[i].line : i \in
        {k \in FixCarrying(results) :
            /\ results[k].fix[1] # <<>>
            /\ results[k].line \in 1..n
            /\ \/ results[k].fix_type = "replace_line"
               \/ /\ results[k].fix_type = "replace_range"
                  /\ results[k].fix_range # None}}

\* output[pos+1..] is the lines orig[i..], each untargeted line as it was
\* and each targeted line replaced by a text with the line's terminator.
RECURSIVE KeepsLines(_, _, _, _, _)
KeepsLines(output, pos, orig, i, targeted) ==
    IF i > Len(orig) THEN pos = Len(output)
    ELSE IF i \notin targeted
    THEN /\ pos + Len(orig[i]) <= Len(output)
         /\ SubSeq(output, pos + 1, pos + Len(orig[i])) = orig[i]
         /\ KeepsLines(output, pos + Len(orig[i]), orig, i + 1, targeted)
    ELSE \E k \in pos..Len(output) :
            /\ Terminator(SubSeq(output, pos + 1, k)) = Terminator(orig[i])
            /\ KeepsLines(output, k, orig, i + 1, targeted)

\* C10: _apply_fixes keeps the line structure: the output is the original
\* lines in order, every line no fix is applied to unchanged, and every
\* line a fix is applied to still ending with its original terminator.
C10_LineStructureKept ==
    fix_output # None
    => LET orig == SplitLinesKeep(fix_content)
       IN KeepsLines(fix_output[1], 0, orig, 1,
                     Targeted(fix_results, Len(orig)))

\* The results of the first check and of the check after the fixes.
FirstResults == check_out[1].results
SecondResults == recheck_out[1].results
Checked(rule_id) == check_out # None /\ check_rule.id = rule_id
Rechecked(rule_id) == recheck_out # None /\ check_rule.id = rule_id

\* The message is one of the missing-docstring diagnostics.
LacksDocstring(r) ==
    r.message[1] \in {"Module lacks a docstring", "Class lacks a docstring",
                      "Function lacks a docstring"}

\* C11: fix idempotence for presence fixes.  Whenever DocstringsRule.check
\* reports a missing docstring with a fix, applying the rule's fixes with
\* _apply_fixes and running the check again on the result does not report
\* the same missing-docstring diagnostic again.
C11_PresenceFixIdempotent ==
    Rechecked(DocstringsId)
    => \A i \in 1..Len(FirstResults) :
          (FirstResults[i].fix # None /\ LacksDocstring(FirstResults[i]))
          => ~\E j \in 1..Len(SecondResults) :
                 SecondResults[j].message = FirstResults[i].message

\* The results with the given first message part.
WithMessage(results, text) ==
    {j \in 1..Len(results) : results[j].message[1] = text}

\* The "Unused import" results at a line for a bound name.
UnusedAt(results, lineno, name) ==
    {j \in WithMessage(results, "Unused import: ") :
        /\ results[j].line = lineno
        /\ results[j].message[Len(results[j].message)] = name}

\* The statements of a content that parses, and the identifiers and
\* attribute base names referenced in it.
StmtsOf(content) == Parse(content).stmts
ImportIndexes(stmts) ==
    {i \in 1..Len(stmts) : stmts[i].kind \in {"import", "from"}}
Referenced(stmts) == UNION {stmts[i].uses : i \in 1..Len(stmts)}

\* C12: unused-import detection with allow_unused_imports false.  Every
\* name bound by an import that is neither a __future__ nor a wildcard
\* import and that is not referenced yields exactly one "Unused import"
\* result at the import's line, no referenced name is flagged, and the
\* detection adds to the other checks: the imports test file ("import sys,
\* os", only os used) yields one compound-import result, one unused-import
\* result for sys and none for os.
C12_UnusedImports ==
    (/\ Checked(ImportsId)
     /\ ~GetOption(check_rule, "allow_unused_imports")
     /\ Parse(check_content).error = 0)
    => LET stmts == StmtsOf(check_content)
           used == Referenced(stmts)
       IN /\ ~check_out[1].raised
          /\ \A i \in ImportIndexes(stmts) :
                IsFuture(stmts[i])
                \/ \A k \in 1..Len(stmts[i].names) :
                      LET alias == stmts[i].names[k]
                          found == UnusedAt(FirstResults, stmts[i].lineno,
                                            BoundName(alias))
                      IN alias.name = "*"
                         \/ Cardinality(found)
                            = (IF BoundName(alias) \in used THEN 0 ELSE 1)
          /\ \A j \in WithMessage(FirstResults, "Unused import: ") :
                FirstResults[j].message[Len(FirstResults[j].message)]
                    \notin used
          /\ check_content = ImportsTestContent
             => /\ Cardinality(WithMessage(FirstResults,
                        "Multiple modules imported on one line")) = 1
                /\ Cardinality(UnusedAt(FirstResults, 2, "sys")) = 1
                /\ UnusedAt(FirstResults, 2, "os") = {}

\* The import statements of a file, in file order.
ImportSeq(stmts) ==
    SelectSeq([i \in 1..Len(stmts) |-> i],
              LAMBDA i : stmts[i].kind \in {"import", "from"})

\* Every import of the file is a plain import of one module.
PlainImportsOnly(stmts) ==
    \A i \in ImportIndexes(stmts) :
        stmts[i].kind = "import" /\ Len(stmts[i].names) = 1

\* "import A" then "import B" with the first dotted segment of A greater
\* than that of B.
OutOfOrder(a, b) ==
    StrGreater(TopLevel(a.names[1].name), TopLevel(b.names[1].name))

OrderResults(results) == WithMessage(results, "Imports not in proper order")

OrderResultsAt(results, node) ==
    {j \in OrderResults(results) : results[j].line = node.lineno}

\* "import X" and "from X import Y" (or "from X.sub import Y") name the
\* same top-level module.
SameTopLevel(plain, from) ==
    /\ plain.kind = "import" /\ Len(plain.names) = 1
    /\ from.kind = "from" /\ from.module # None
    /\ TopLevel(plain.names[1].name) = TopLevel(from.module[1])

\* C14: import before from for the same top-level module.  "import X"
\* immediately followed by "from X import Y" or "from X.sub import Y" is in
\* proper order and yields no ordering result; "from X import Y"
\* immediately followed by "import X" is out of order and yields one
\* ordering result.
C14_ImportBeforeFrom ==
    (/\ Checked(ImportsId)
     /\ GetOption(check_rule, "check_order")
     /\ Parse(check_content).error = 0)
    => LET stmts == StmtsOf(check_content)
       IN /\ ~check_out[1].raised
          /\ \A i \in 2..Len(stmts) :
                /\ SameTopLevel(stmts[i - 1], stmts[i])
                   => OrderResultsAt(FirstResults, stmts[i]) = {}
                /\ SameTopLevel(stmts[i], stmts[i - 1])
                   => Cardinality(OrderResultsAt(FirstResults, stmts[i])) = 1

\* The only import of the file is a wildcard import "from M import *".
OnlyWildcardImport(stmts) ==
    /\ Cardinality(ImportIndexes(stmts)) = 1
    /\ \A i \in ImportIndexes(stmts) :
          /\ stmts[i].kind = "from"
          /\ stmts[i].module # None
          /\ Len(stmts[i].names) = 1
          /\ stmts[i].names[1].name = "*"

Fixable(results) == {j \in 1..Len(results) : results[j].fix # None}

\* The function definitions of a file, and whether one has a docstring.
DefIndexes(stmts) == {i \in 1..Len(stmts) : stmts[i].kind = "def"}

\* Every parameter of a function other than self and cls.
Parameters(node) ==
    SelectSeq(node.args \o node.kwonlyargs,
              LAMBDA a : a # "self" /\ a # "cls")

\* The number of triple quotes in a text.
RECURSIVE TripleQuotes(_)
TripleQuotes(text) ==
    IF text = <<>> THEN 0
    ELSE (IF IsTerminator(Head(text)) THEN 0 ELSE Stmt(Head(text)).tq)
         + TripleQuotes(Tail(text))

\* The text is one triple-quoted block: it opens with a triple quote on its
\* first line and closes with one on its last.
IsDocBlock(text) ==
    LET lines == SplitLines(text)
    IN /\ Len(lines) >= 1
       /\ TripleQuotes(text) = 2
       /\ lines[1] # <<>> /\ Stmt(lines[1][1]).tq >= 1
       /\ lines[Len(lines)] # <<>>
       /\ Stmt(lines[Len(lines)][Len(lines[Len(lines)])]).tq >= 1

\* The block has a line "<name>: Description" for the parameter.
ListsParameter(text, node, name) ==
    \E k \in 1..Len(text) : text[k] = DocParamLine(node.indent, name)

HasReturnsPlaceholder(text) ==
    \E k \in 1..Len(text) :
        ~IsTerminator(text[k]) /\ "Returns:" \in Stmt(text[k]).marks

\* C16: docstring presence.  For a file containing one function, which has
\* no docstring and is not excluded by the ignore filters,
\* DocstringsRule.check with default options gives exactly one result with
\* a fix; the fix has fix_type replace_line and is a triple-quoted block of
\* at least one line that lists every parameter other than self and cls
\* and holds a "Returns:" placeholder iff the function has a return
\* annotation.
C16_DocstringPresence ==
    (/\ Checked(DocstringsId)
     /\ Parse(check_content).error = 0
     /\ LET stmts == StmtsOf(check_content)
        IN /\ Cardinality(DefIndexes(stmts)) = 1
           /\ \A i \in DefIndexes(stmts) :
                 /\ DocstringIndex(stmts, i) = 0
                 /\ ~ShouldIgnoreFunction(check_rule, stmts[i]))
    => LET stmts == StmtsOf(check_content)
           node == stmts[CHOOSE i \in DefIndexes(stmts) : TRUE]
       IN /\ ~check_out[1].raised
          /\ Cardinality(Fixable(FirstResults)) = 1
          /\ \A j \in Fixable(FirstResults) :
                LET text == FirstResults[j].fix[1]
                IN /\ FirstResults[j].fix_type = "replace_line"
                   /\ IsDocBlock(text)
                   /\ \A k \in 1..Len(Parameters(node)) :
                         ListsParameter(text, node, Parameters(node)[k])
                   /\ HasReturnsPlaceholder(text) <=> node.returns

(***************************************************************************)
(* The rule registry: get_all_rules and register_rule                      *)
(***************************************************************************)
MaxRegistryCalls == 4

\* Two rule classes of a user, besides the built-in ones.
CustomRuleA == "custom/rule-a"
CustomRuleB == "custom/rule-b"
RegistryClasses == {CustomRuleA, CustomRuleB, ImportsId, TypesId}

\* rule_cls in rules
InRules(rules, rule_cls) == \E i \in 1..Len(rules) : rules[i] = rule_cls

RulesAfterAppend(rules, rule_cls) == Append(rules, rule_cls)

\* _RULES after register_rule(rule_cls)
RulesAfterRegister(rules, rule_cls) ==
    IF ~InRules(rules, rule_cls) THEN Append(rules, rule_cls) ELSE rules

\* The module is imported: _RULES holds the built-in rules.
RegistryInit ==
    /\ lists = [r \in {"_RULES"} |-> BuiltinRules]
    /\ returned_ref = "none"
    /\ registered = <<>>
    /\ registry_calls = 0
    /\ LintIdle
    /\ GlobIdle
    /\ FixIdle
    /\ RuleIdle
    /\ SetupIdle

\* register_rule(rule_cls)
RegisterRule(rule_cls) ==
    /\ registry_calls < MaxRegistryCalls
    /\ lists' = [lists EXCEPT
                    !["_RULES"] = RulesAfterRegister(@, rule_cls)]
    /\ registered' = Append(registered, rule_cls)
    /\ registry_calls' = registry_calls + 1
    /\ UNCHANGED <<returned_ref, lint_vars, glob_vars, fix_vars, rule_vars,
                   setup_vars>>

\* get_all_rules(): the caller gets a new list, _RULES.copy()
GetAllRules ==
    /\ registry_calls < MaxRegistryCalls
    /\ lists' = [r \in {"_RULES", "copy"} |-> lists["_RULES"]]
    /\ returned_ref' = "copy"
    /\ registry_calls' = registry_calls + 1
    /\ UNCHANGED <<registered, lint_vars, glob_vars, fix_vars, rule_vars, setup_vars>>

\* The caller appends to the list it got: returned.append(rule_cls)
CallerAppends(rule_cls) ==
    /\ registry_calls < MaxRegistryCalls
    /\ returned_ref # "none"
    /\ lists' = [lists EXCEPT ![returned_ref] = Append(@, rule_cls)]
    /\ registry_calls' = registry_calls + 1
    /\ UNCHANGED <<returned_ref, registered, lint_vars, glob_vars, fix_vars,
                   rule_vars, setup_vars>>

\* The caller removes from the list it got: del returned[0]
CallerRemoves ==
    /\ registry_calls < MaxRegistryCalls
    /\ returned_ref # "none"
    /\ lists[returned_ref] # <<>>
    /\ lists' = [lists EXCEPT ![returned_ref] = Tail(@)]
    /\ registry_calls' = registry_calls + 1
    /\ UNCHANGED <<returned_ref, registered, lint_vars, glob_vars, fix_vars,
                   rule_vars, setup_vars>>

RegistryNext ==
    \/ \E rule_cls \in RegistryClasses : RegisterRule(rule_cls)
    \/ GetAllRules
    \/ \E rule_cls \in RegistryClasses : CallerAppends(rule_cls)
    \/ CallerRemoves

RegistrySpec == RegistryInit /\ [][RegistryNext]_vars

\* A list without the repetitions of its elements: each at its first place.
RECURSIVE FirstOccurrences(_)
FirstOccurrences(seq) ==
    IF seq = <<>> THEN <<>>
    ELSE LET front == FirstOccurrences(SubSeq(seq, 1, Len(seq) - 1))
             last == seq[Len(seq)]
         IN IF InRules(front, last) THEN front ELSE Append(front, last)

Occurrences(seq, x) == Cardinality({i \in 1..Len(seq) : seq[i] = x})

\* C17: register_rule is idempotent and order-preserving.  After any
\* sequence of register_rule calls, get_all_rules() is the built-in rules
\* followed by the registered classes that are not built in, in order of
\* first registration; every class occurs in it exactly once; and what a
\* caller does to a list it got from get_all_rules() leaves it as it is.
C17_RegistryIdempotent ==
    LET rules == lists["_RULES"]
    IN /\ rules = FirstOccurrences(BuiltinRules \o registered)
       /\ \A i \in 1..Len(BuiltinRules) : rules[i] = BuiltinRules[i]
       /\ \A i \in 1..Len(rules) : Occurrences(rules, rules[i]) = 1
       /\ \A i \in 1..Len(registered) : Occurrences(rules, registered[i]) = 1

\* A class was registered twice, and the caller then removed the first
\* element of the list it got from get_all_rules().
C17_Witness ==
    /\ registered = <<CustomRuleA, CustomRuleA>>
    /\ returned_ref = "copy"
    /\ lists["copy"] = Tail(Append(BuiltinRules, CustomRuleA))
    /\ lists["_RULES"] = Append(BuiltinRules, CustomRuleA)

(***************************************************************************)
(* Setting up a linter: Config, LlamaLint(config), and the first calls     *)
(***************************************************************************)
MaxSetupCalls == 2

\* A pattern whose regular expression does not compile.
PlusA == <<"+", "a">>

\* The configurations a run starts from.
SetupConfigs ==
    {DefaultConfig,
     Config(IncludePy, <<NamedB>>),
     Config(<<PyAnywhere, PlusA>>, <<>>),
     Config(<<>>, <<PlusA>>)}

\* What is on disk during the calls.
SetupDisk ==
    [path \in FileSet |->
        [readable |-> TRUE,
         data |-> IF path = FileTB THEN CleanContent
                  ELSE ImportsTestContent]]

\* d[key] = value on a dict
DictSet(d, key, value) ==
    [k \in DOMAIN d \cup {key} |-> IF k = key THEN value ELSE d[k]]

\* The severities and per-rule options callers give.
SeverityInputs == {"error", "info", "fatal"}
OptionInputs ==
    {[check_order |-> FALSE],
     [bogus |-> TRUE],
     [allow_unused_imports |-> TRUE, chek_order |-> FALSE]}

\* The rule ids given with --ignore.
IgnoreInputs == {{ImportsId}, {DocstringsId}}

\* [FileUtils._glob_to_regex(p) for p in patterns] returns: every
\* re.compile succeeds.
AllCompile(patterns) ==
    \A i \in 1..Len(patterns) :
        RegexCompiles(FileUtilsGlobToRegex(patterns[i]))

\* How a call ends: the list it returns, or the exception it raises.
CallReturned(results) == [raised |-> "none", results |-> results]
CallRaised(exception) == [raised |-> exception, results |-> <<>>]

\* LlamaLint(config): no statement of __init__ or _load_rules inspects the
\* patterns, the option keys or the severities.
NewLlamaLint(cfg) ==
    [raised |-> "none", config |-> cfg, rules |-> LoadRules(cfg)]

\* linter.lint_file(path): is_ignored converts the patterns first.
LintFileOutcome(linter, files, path) ==
    IF ~AllCompile(linter.config.include)
       \/ ~AllCompile(linter.config.exclude)
    THEN CallRaised("re.error")
    ELSE CallReturned(LintFileRun(linter.config, linter.rules, files, path,
                              FALSE).results)

\* linter.lint_directory(directory): find_files converts the patterns
\* once the directory is known to exist.
LintDirectoryOutcome(linter, files, directory) ==
    IF IsDir(directory)
       /\ (~AllCompile(linter.config.include)
           \/ ~AllCompile(linter.config.exclude))
    THEN CallRaised("re.error")
    ELSE CallReturned(LintDirectoryRun(linter.config, linter.rules, files,
                                   directory, FALSE).results)

SetupInit ==
    /\ setup_config \in SetupConfigs
    /\ setup_linter = None
    /\ setup_out = None
    /\ setup_calls = 0
    /\ LintIdle
    /\ GlobIdle
    /\ FixIdle
    /\ RuleIdle
    /\ RegistryIdle

\* config.set_rule_severity(rule_id, severity)
SetRuleSeverity(rule_id, severity) ==
    /\ setup_linter = None
    /\ setup_calls < MaxSetupCalls
    /\ setup_config' =
          [setup_config EXCEPT
              !.rule_severity = DictSet(@, rule_id, severity)]
    /\ setup_calls' = setup_calls + 1
    /\ UNCHANGED <<setup_linter, setup_out, lint_vars, glob_vars, fix_vars,
                   rule_vars, registry_vars>>

\* config.set_rule_config(rule_id, options)
SetRuleConfig(rule_id, options) ==
    /\ setup_linter = None
    /\ setup_calls < MaxSetupCalls
    /\ setup_config' =
          [setup_config EXCEPT !.rule_configs = DictSet(@, rule_id, options)]
    /\ setup_calls' = setup_calls + 1
    /\ UNCHANGED <<setup_linter, setup_out, lint_vars, glob_vars, fix_vars,
                   rule_vars, registry_vars>>

\* config.ignore_rules(rule_ids), before the engine is built or, as the lint
\* command does, on linter.config afterwards: the engine holds the same
\* Config object, and its rules stay as _load_rules left them.
IgnoreRules(rule_ids) ==
    /\ setup_calls < MaxSetupCalls
    /\ setup_config' =
          [setup_config EXCEPT !.disabled_rules = @ \cup rule_ids]
    /\ setup_linter' =
          IF setup_linter = None THEN None
          ELSE Some([setup_linter[1] EXCEPT !.config = setup_config'])
    /\ setup_calls' = setup_calls + 1
    /\ UNCHANGED <<setup_out, lint_vars, glob_vars, fix_vars, rule_vars,
                   registry_vars>>

\* LlamaLint(config)
Construct ==
    /\ setup_linter = None
    /\ setup_linter' = Some(NewLlamaLint(setup_config))
    /\ UNCHANGED <<setup_config, setup_out, setup_calls, lint_vars,
                   glob_vars, fix_vars, rule_vars, registry_vars>>

\* linter.lint_file(path)
SetupLintFile(path) ==
    /\ setup_linter # None
    /\ setup_linter[1].raised = "none"
    /\ setup_out' = Some(LintFileOutcome(setup_linter[1], SetupDisk, path))
    /\ UNCHANGED <<setup_config, setup_linter, setup_calls, lint_vars,
                   glob_vars, fix_vars, rule_vars, registry_vars>>

\* linter.lint_directory(directory)
SetupLintDirectory(directory) ==
    /\ setup_linter # None
    /\ setup_linter[1].raised = "none"
    /\ setup_out' = Some(LintDirectoryOutcome(setup_linter[1], SetupDisk,
                                              directory))
    /\ UNCHANGED <<setup_config, setup_linter, setup_calls, lint_vars,
                   glob_vars, fix_vars, rule_vars, registry_vars>>

SetupNext ==
    \/ \E rule_id \in {ImportsId, DocstringsId}, severity \in SeverityInputs :
          SetRuleSeverity(rule_id, severity)
    \/ \E rule_id \in {ImportsId, DocstringsId}, options \in OptionInputs :
          SetRuleConfig(rule_id, options)
    \/ \E rule_ids \in IgnoreInputs : IgnoreRules(rule_ids)
    \/ Construct
    \/ \E path \in {FileA, FileTXA} : SetupLintFile(path)
    \/ \E directory \in {RootDir, MissingDir} : SetupLintDirectory(directory)

SetupSpec == SetupInit /\ [][SetupNext]_vars

\* The option keys given for a rule that the rule does not declare.
UnknownOptionKeys(cfg, rule_id) ==
    IF rule_id \in DOMAIN cfg.rule_configs
    THEN DOMAIN cfg.rule_configs[rule_id] \ DOMAIN Options(rule_id)
    ELSE {}

HasUnknownOptionKey(cfg) ==
    \E rule_id \in DOMAIN cfg.rule_configs :
        /\ rule_id \notin cfg.disabled_rules
        /\ UnknownOptionKeys(cfg, rule_id) # {}

\* C18: unknown option keys are not silently ignored.  When the per-rule
\* configuration a rule is instantiated with holds a key that is not among
\* the rule's declared options, constructing the linter reports it as an
\* error: LlamaLint(config) does not complete as if nothing were wrong, so
\* no file is processed with that configuration.
C18_UnknownOptionReported ==
    (setup_linter # None /\ HasUnknownOptionKey(setup_linter[1].config))
    => setup_linter[1].raised # "none"

Severities == {"error", "warning", "info"}

\* C19: severity invariant.  Whatever the configuration, rule_severity
\* overrides included, every loaded rule's severity is one of error,
\* warning, info, and so is the severity of every result lint_file or
\* lint_directory returns.
C19_SeverityInvariant ==
    /\ setup_linter # None
       => \A i \in 1..Len(setup_linter[1].rules) :
             setup_linter[1].rules[i].severity \in Severities
    /\ setup_out # None
       => \A j \in 1..Len(setup_out[1].results) :
             setup_out[1].results[j].severity \in Severities

\* A pattern of the configuration does not convert to a regular expression.
HasMalformedPattern(cfg) == ~AllCompile(cfg.include) \/ ~AllCompile(cfg.exclude)

\* C20: an unparsable glob pattern is rejected with a ConfigurationError
\* when the linter is constructed, and no call of lint_file or
\* lint_directory fails because of a malformed include or exclude pattern.
C20_MalformedPatternRejectedAtSetup ==
    /\ (setup_linter # None /\ HasMalformedPattern(setup_linter[1].config))
       => setup_linter[1].raised = "ConfigurationError"
    /\ setup_out # None => setup_out[1].raised = "none"

\* Place of a rule among the loaded rules; 0 for the engine's own results.
RuleIndex(rule_id) ==
    IF \E k \in 1..Len(self_rules) : self_rules[k].id = rule_id
    THEN CHOOSE k \in 1..Len(self_rules) : self_rules[k].id = rule_id
    ELSE 0

\* lint_file of each path in turn, each on the files as the call found
\* them, one list after the other.
RECURSIVE PerFileResults(_, _)
PerFileResults(paths, fix) ==
    IF paths = <<>> THEN <<>>
    ELSE LintFileRun(self_config, self_rules, before, Head(paths),
                     fix).results
         \o PerFileResults(Tail(paths), fix)

\* The returned results of one rule for one file, in the order returned.
ReturnedOf(file_path_str, rule_id) ==
    SelectSeq(returned,
              LAMBDA r : r.file_path = file_path_str /\ r.rule_id = rule_id)

\* The pass whose results a call returns for a file: the re-run when the
\* file was written.
FinalPass(path) ==
    IF \E i \in Writes : log[i].path = path THEN 2 ELSE 1

\* C21: aggregation order.  The list lint_directory returns is the
\* concatenation of the lint_file results of the files in traversal order;
\* within one file the results are in the order of the loaded rules, and
\* the results of one rule are in the order in which its check emitted
\* them: nothing is re-sorted.
C21_AggregationOrder ==
    /\ (IsLintDirectory /\ IsDir(call.target))
       => returned =
             PerFileResults(FindFiles(call.target, self_config.include,
                                      self_config.exclude), call.fix)
    /\ \A i, j \in 1..Len(returned) :
          (i < j /\ returned[i].file_path = returned[j].file_path)
          => RuleIndex(returned[i].rule_id) <= RuleIndex(returned[j].rule_id)
    /\ \A e \in 1..Len(log) :
          (/\ log[e].ev = "check"
           /\ log[e].pass = FinalPass(log[e].path)
           /\ ~log[e].raised)
          => ReturnedOf(PathStr(log[e].path), log[e].rule) = log[e].results

\* lint_directory returned results of two files, of two rules for one
\* file, and two results of one rule.
C21_Witness ==
    /\ IsLintDirectory
    /\ \E i, j \in 1..Len(returned) :
          i < j /\ returned[i].file_path # returned[j].file_path
    /\ \E i, j \in 1..Len(returned) :
          /\ i < j
          /\ returned[i].file_path = returned[j].file_path
          /\ returned[i].rule_id # returned[j].rule_id
    /\ \E i, j \in 1..Len(returned) :
          /\ i < j
          /\ returned[i].file_path = returned[j].file_path
          /\ returned[i].rule_id = returned[j].rule_id
          /\ returned[i].line > returned[j].line

\* The checks of the two Python rules that were given content that does
\* not parse.
UnparsedChecks ==
    {e \in 1..Len(log) :
        /\ log[e].ev = "check"
        /\ log[e].rule \in {ImportsId, DocstringsId}
        /\ Parse(log[e].content).error # 0}

\* C22: soft failure on malformed source.  Given content that does not
\* parse, ImportsRule.check and DocstringsRule.check do not raise and
\* return exactly one result, at the parser's line and without a fix; and
\* lint_file(fix=True) on a file with such content leaves the content of
\* the file as it was.
C22_SoftFailureOnMalformedSource ==
    /\ \A e \in UnparsedChecks :
          /\ ~log[e].raised
          /\ Len(log[e].results) = 1
          /\ log[e].results[1].line = Parse(log[e].content).error
          /\ log[e].results[1].fix = None
          /\ log[e].results[1].fix_type = "None"
    /\ (/\ IsLintFile
        /\ call.fix
        /\ before[call.target].readable
        /\ Parse(ReadText(before[call.target].data)).error # 0)
       => disk[call.target].data = before[call.target].data

\* The functions and classes of a file that have a docstring.
Documented(stmts) ==
    {i \in 1..Len(stmts) :
        IsHeader(stmts[i]) /\ DocstringIndex(stmts, i) # 0}

IsStyleResult(r) ==
    r.message[1] \in {"Function docstring style issues",
                      "Class docstring style issues"}

\* The style results of a check for the function or class at a line.
StyleResultsAt(results, lineno) ==
    {j \in 1..Len(results) :
        IsStyleResult(results[j]) /\ results[j].line = lineno}

\* The section types the google convention misses in a docstring.
MissingGoogleSections(node, marks) ==
    (IF node.kind = "def" /\ marks \cap {"Args:", "Parameters:"} = {}
     THEN {"missing Args/Parameters section"} ELSE {})
    \cup (IF node.kind = "def" /\ marks \cap {"Returns:", "Yields:"} = {}
          THEN {"missing Returns/Yields section"} ELSE {})
    \cup (IF node.kind = "class" /\ "Attributes:" \notin marks
          THEN {"missing Attributes section"} ELSE {})

\* The issues a style result names, after the kind and the name.
IssuesOf(r) == {r.message[k] : k \in 3..Len(r.message)}

\* C23: style validation in DocstringsRule.  A documented function or class
\* yields at most one style result; with the google convention that
\* result names every missing section type (Args/Parameters and
\* Returns/Yields for a function, Attributes for a class) and nothing
\* else; a style result never carries a fix; and with style "any" no
\* style result is produced.
C23_StyleValidation ==
    (Checked(DocstringsId) /\ Parse(check_content).error = 0)
    => LET stmts == StmtsOf(check_content)
           style == GetOption(check_rule, "style")
       IN /\ ~check_out[1].raised
          /\ \A i \in Documented(stmts) :
                LET found == StyleResultsAt(FirstResults, stmts[i].lineno)
                    marks == stmts[DocstringIndex(stmts, i)].marks
                IN /\ Cardinality(found) <= 1
                   /\ style = "google"
                      => \A j \in found :
                            /\ IssuesOf(FirstResults[j])
                               = MissingGoogleSections(stmts[i], marks)
                            /\ Len(FirstResults[j].message)
                               = 2 + Cardinality(IssuesOf(FirstResults[j]))
          /\ \A j \in 1..Len(FirstResults) :
                IsStyleResult(FirstResults[j])
                => /\ FirstResults[j].fix = None
                   /\ FirstResults[j].fix_type = "None"
                   /\ style # "any"
                   /\ \E i \in Documented(stmts) :
                         stmts[i].lineno = FirstResults[j].line

\* With the google convention, a documented function that lacks both
\* sections got one style result naming both.
C23_Witness ==
    /\ Checked(DocstringsId)
    /\ GetOption(check_rule, "style") = "google"
    /\ check_content = FileOf(<<OneLineDoc, DefF, OneLineDoc4, ReturnX>>)
    /\ Len(FirstResults) = 1
    /\ IssuesOf(FirstResults[1]) = {"missing Args/Parameters section",
                                    "missing Returns/Yields section"}

\* With style "any", the same file gave no result.
C23_WitnessAny ==
    /\ Checked(DocstringsId)
    /\ GetOption(check_rule, "style") = "any"
    /\ check_content = FileOf(<<OneLineDoc, DefF, OneLineDoc4, ReturnX>>)
    /\ FirstResults = <<>>

\* The number of lines content.splitlines(True) gives.
LineCount(content) == Len(SplitLinesKeep(content))

\* A fix-carrying result whose line is outside [1, lineCount].
IsStale(content, r) ==
    r.fix # None /\ (r.line < 1 \/ r.line > LineCount(content))

WithoutStale(content, results) ==
    SelectSeq(results, LAMBDA r : ~IsStale(content, r))

\* C24: stale fixes.  A fix-carrying result whose line is outside
\* [1, lineCount] (line 0 and any line of an empty file included) is
\* skipped: the output of _apply_fixes is the output for the same results
\* without the stale ones, so every other fix is still applied; and when
\* every fix is stale or no result carries a fix, the output is the input
\* content.
C24_StaleFixesSkipped ==
    fix_output # None
    => /\ fix_output[1]
          = ApplyFixes(fix_content, WithoutStale(fix_content, fix_results))
       /\ (\A i \in 1..Len(fix_results) :
              fix_results[i].fix = None
              \/ IsStale(fix_content, fix_results[i]))
          => fix_output[1] = fix_content
       /\ (\A i \in 1..Len(fix_results) :
              (/\ fix_results[i].fix # None
               /\ ~IsStale(fix_content, fix_results[i])
               /\ fix_results[i].fix_type = "replace_line"
               /\ \A j \in 1..Len(fix_results) :
                     (j # i /\ fix_results[j].fix # None
                      /\ ~IsStale(fix_content, fix_results[j]))
                     => fix_results[j].line # fix_results[i].line)
              => (SplitLinesKeep(fix_content)[fix_results[i].line]
                  = fix_results[i].fix[1]
                  \/ fix_output[1] # fix_content))

\* A call with a fix at line 0 and a fix at line 1 of a one-line content:
\* the second one was applied, the first one left no trace.
C24_Witness ==
    /\ fix_output # None
    /\ fix_content = <<"a", "\n">>
    /\ Len(fix_results) = 2
    /\ fix_results[1].line = 0 /\ fix_results[1].fix # None
    /\ fix_results[2].line = 1 /\ fix_results[2].fix = Some(<<"b">>)
    /\ fix_output[1] = <<"b">>

\* A call on an empty file whose fixes are all stale.
C24_WitnessEmpty ==
    /\ fix_output # None
    /\ fix_content = <<>>
    /\ Len(fix_results) = 2
    /\ \A i \in 1..2 : IsStale(fix_content, fix_results[i])
    /\ fix_output[1] = <<>>

\* The rule ids of the results a call returned.
RuleIdsOf(out) == {out.results[k].rule_id : k \in 1..Len(out.results)}

\* A lint_file or lint_directory step of the engine.
SetupLintStep ==
    \/ \E path \in {FileA, FileTXA} : SetupLintFile(path)
    \/ \E directory \in {RootDir, MissingDir} : SetupLintDirectory(directory)

\* C25: rules named with --ignore are ignored.  After the engine is built
\* and config.ignore_rules(ignore) is called on its configuration, a
\* following lint_file or lint_directory call returns no result whose
\* rule_id is one of the ignored ids, just as for a rule that was in
\* disabled_rules before the engine was constructed.
C25_IgnoredRulesGiveNoResults ==
    [][SetupLintStep
       => RuleIdsOf(setup_out'[1]) \cap setup_config.disabled_rules = {}]_vars

\* The parenthesis of C25: a rule that was in disabled_rules when the
\* engine was constructed gives no result; the built-in rules that give
\* results are among those the engine loaded.
DisabledAtConstructionGiveNoResults ==
    [][SetupLintStep
       => RuleIdsOf(setup_out'[1])
             \cap {BuiltinRules[k] : k \in 1..Len(BuiltinRules)}
          \subseteq {setup_linter[1].rules[k].id :
                        k \in 1..Len(setup_linter[1].rules)}]_vars

\* An engine built after ignore_rules named the imports rule returned the
\* results of a file without any result of that rule.
DisabledBeforeConstructionWitness ==
    /\ setup_linter # None
    /\ ImportsId \in setup_config.disabled_rules
    /\ \A k \in 1..Len(setup_linter[1].rules) :
          setup_linter[1].rules[k].id # ImportsId
    /\ setup_out # None
    /\ RuleIdsOf(setup_out[1]) = {DocstringsId}

\* C26: the import-ordering comparison behaves as a total order, so it is
\* transitive.  When check, with check_order enabled, reports no ordering
\* result for a file (every adjacent pair of imports is in proper order),
\* every pair of imports i < j of the file is in proper order too; in
\* particular "import sys", "from os import path", "import os" cannot pass
\* without a result, since "import sys", "import os" is flagged.
C26_OrderIsTransitive ==
    (/\ Checked(ImportsId)
     /\ GetOption(check_rule, "check_order")
     /\ Parse(check_content).error = 0
     /\ ~check_out[1].raised
     /\ OrderResults(FirstResults) = {})
    => LET stmts == StmtsOf(check_content)
           imps == ImportSeq(stmts)
       IN \A i, j \in 1..Len(imps) :
             i < j => IsProperOrder(stmts[imps[i]], stmts[imps[j]]) = "true"

\* The text of a line of the content, without its terminator.
LineText(content, lineno) ==
    SelectSeq(SplitLinesKeep(content)[lineno],
              LAMBDA u : u \notin {"\n", "\r"})

\* The text occurs as a line, or within a line, of the content.
RECURSIVE OccursIn(_, _)
OccursIn(text, content) ==
    /\ Len(content) >= Len(text)
    /\ \/ SubSeq(content, 1, Len(text)) = text
       \/ OccursIn(text, Tail(content))

\* C27: applying a missing-docstring fix never destroys existing code.
\* After _apply_fixes has applied the fixes of DocstringsRule.check, the
\* line each "lacks a docstring" result with a fix points at (the def or
\* class header, or the first line of the file for the module result) is
\* still present in the content.
C27_FixKeepsCode ==
    (/\ Checked(DocstringsId)
     /\ Parse(check_content).error = 0
     /\ fixed_content # None)
    => \A j \in Fixable(FirstResults) :
          (/\ LacksDocstring(FirstResults[j])
           /\ FirstResults[j].line \in 1..LineCount(check_content))
          => OccursIn(LineText(check_content, FirstResults[j].line),
                      fixed_content[1])

\* The compound-import results of a check.
MultiImportResults(results) ==
    WithMessage(results, "Multiple modules imported on one line")

\* The statements of a fix text, one per line.
FixStatements(text) ==
    LET lines == SelectSeq(text, LAMBDA u : u \notin {"\n", "\r"})
    IN [k \in 1..Len(lines) |-> Stmt(lines[k])]

BoundNames(node) == {BoundName(node.names[k]) : k \in 1..Len(node.names)}

\* C28: the compound-import fix binds the same names as the statement it
\* replaces.  For "import a, b as c, ..." the fix text is one import
\* statement per name, each at the original indentation, and the names
\* these statements bind are the names the original statement binds.
C28_CompoundFixBindsSameNames ==
    (Checked(ImportsId) /\ Parse(check_content).error = 0)
    => LET stmts == StmtsOf(check_content)
       IN \A j \in MultiImportResults(FirstResults) :
             \A i \in 1..Len(stmts) :
                (stmts[i].kind = "import"
                 /\ stmts[i].lineno = FirstResults[j].line)
                => LET fixed == FixStatements(FirstResults[j].fix[1])
                   IN /\ FirstResults[j].fix # None
                      /\ Len(fixed) = Len(stmts[i].names)
                      /\ \A k \in 1..Len(fixed) :
                            /\ fixed[k].kind = "import"
                            /\ Len(fixed[k].names) = 1
                            /\ fixed[k].indent = stmts[i].indent
                      /\ UNION {BoundNames(fixed[k]) : k \in 1..Len(fixed)}
                         = BoundNames(stmts[i])

\* C29: ImportsRule.check never raises on syntactically valid content.  For
\* every sequence of import statements, a plain "import a" immediately
\* followed by "from . import b" included, with check_order enabled, check
\* returns a list of results.
C29_ImportsCheckReturns ==
    (/\ Checked(ImportsId)
     /\ GetOption(check_rule, "check_order")
     /\ Parse(check_content).error = 0)
    => ~check_out[1].raised

\* The files lint_file dropped by its own ignore test during the last call.
DroppedByLintFile ==
    {log[k].path : k \in {n \in 1..Len(log) : log[n].ev = "ignored"}}

\* C30: lint_directory checks every file its traversal accepts.  No path
\* returned by FileUtils.find_files (accepted on its path relative to the
\* root) is then dropped by lint_file's own ignore test (evaluated on the
\* full path), whatever the root directory, include set and exclude set.
C30_TraversalAndFileDecisionAgree ==
    call.op = "lint_directory" => DroppedByLintFile = {}
====
